---- MODULE Spec2Model ----
(***************************************************************************)
(* Navigation state machine of the terminal history browser                *)
(* (src/internal/ui/model.go, first file version, lines 1-710), with the   *)
(* panel state it drives (sidebar.go, diffview.go) and the asynchronous    *)
(* loads it dispatches against the git service.                            *)
(*                                                                         *)
(* The Model struct is the record m.  A tea.Cmd that was returned by       *)
(* Update and has not delivered its message yet is an element of the bag   *)
(* inflight; bubbletea runs every Cmd in its own goroutine, so results     *)
(* are delivered in any order.  A Cmd closure reads the copy of the Model  *)
(* that Update returned, so what it fetches is fixed at dispatch time and  *)
(* is stored in the Cmd record.                                            *)
(*                                                                         *)
(* View is modelled for a terminal whose size is known (width # 0).        *)
(*                                                                         *)
(* The diff annotator of diffview.go (addLineNumbers, flushBlock,          *)
(* highlightDiff) is a pure function of the diff text.  It is modelled by  *)
(* operators on sequences of characters and exercised by two further       *)
(* specifications: SpecAnnotate drives DiffView.SetContent and             *)
(* ToggleDescription over bounded payloads (variable dv), SpecHighlight    *)
(* applies highlightDiff to bounded pairs of texts (variable hl), and      *)
(* SpecJump presses the hunk and scroll keys of DiffView.Update on diff    *)
(* views of a few rows (dv.YOffset, with the last two keys in trail).      *)
(*                                                                         *)
(* SpecLive is the navigation machine over a shorter session of keys with  *)
(* weak fairness on the delivery of load results, for the termination of   *)
(* load chains.                                                            *)
(***************************************************************************)
EXTENDS Integers, Sequences, FiniteSets, Bags, TLC

\* ------------------------------------------------------------------ bounds
MaxLen == 3
MaxInFlight == 2
MaxKeys == 5
MaxLiveKeys == 4
MaxLines == 4
MaxText == 3
MaxHeight == 3

\* --------------------------------------------------------------- constants
focusSidebar == "focusSidebar"
focusDiffView == "focusDiffView"

displayDiff == 0
displayContext == 1
displayFull == 2
displayBlame == 3
NumDisplayModes == 4

modeCommits == "sourceCommits"
modeReflog == "sourceReflog"
modePickaxe == "sourcePickaxe"

Files == {"f1", "f2"}
Terms == {"t1", "t2"}

\* ------------------------------------------------------ history provider
\* A commit is identified by the query that lists it and its position there,
\* so that commits of different sources never coincide.
Hash(src, file, term, n) == [src |-> src, file |-> file, term |-> term, n |-> n]
NoHash == Hash("", "", "", 0)

CommitList(src, file, term, len) == [i \in 1..len |-> Hash(src, file, term, i)]

\* The repository the provider reads: how many commits each query lists.
RepoLen == MaxLen - 1
FileLen(f) == IF f = "f1" THEN MaxLen ELSE 1
ReflogLen(f) == IF f = "f1" THEN MaxLen - 1 ELSE 1
PickaxeLen(f, t) == IF t = "t1" THEN MaxLen - 1 ELSE 1
FilesIn(h) == IF h.n % 2 = 1 THEN <<"f1", "f2">> ELSE <<"f2">>

\* Every provider call lists what the repository holds, lists nothing, or fails.
Replies == {"ok", "none", "fail"}
\* A content fetch succeeds with text, succeeds with no text, or fails.
ContentReplies == {"ok", "empty", "fail"}

GetRecentCommits(reply) == IF reply = "ok" THEN CommitList("C", "", "", RepoLen) ELSE <<>>
GetFilesInCommit(h, reply) == IF reply = "ok" THEN FilesIn(h) ELSE <<>>
GetFileCommits(f, reply) == IF reply = "ok" THEN CommitList("F", f, "", FileLen(f)) ELSE <<>>
GetFileReflog(f, reply) == IF reply = "ok" THEN CommitList("R", f, "", ReflogLen(f)) ELSE <<>>
GetPickaxeCommits(f, t, reply) == IF reply = "ok" THEN CommitList("S", f, t, PickaxeLen(f, t)) ELSE <<>>

\* ---------------------------------------------------------- pane content
\* the provider call with blame answered by the full-file call
GitCallNoBlame(dm) ==
    CASE dm = displayFull \/ dm = displayBlame -> "GetFileContentAtCommit"
      [] dm = displayContext -> "GetDiffAtCommitWithContext(file, hash, 10)"
      [] OTHER -> "GetDiffAtCommit"

\* the provider call loadContentForCommit makes for a display mode
GitCall(dm) ==
    CASE dm = displayBlame -> "GetBlame"
      [] dm = displayFull -> "GetFileContentAtCommit"
      [] dm = displayContext -> "GetDiffAtCommitWithContext(file, hash, 10)"
      [] OTHER -> "GetDiffAtCommit"

\* what a pane shows: a fixed text, or (kind "fetched") the answer of the
\* provider call for file, hash and display mode
Content(kind, file, hash, dm) ==
    [kind |-> kind, file |-> file, hash |-> hash, dm |-> dm,
     call |-> IF kind = "fetched" THEN GitCall(dm) ELSE ""]
Text(kind) == Content(kind, "", NoHash, 0)
NoContent == Text("")
NoChanges == Text("No changes to display")
NoFilesChanged == Text("No files changed in this commit")
NoCommitsFound == Text("No commits found")
\* fmt.Sprintf("Error: %v", err): the text of a failed git call does not name
\* the request
ErrorText == Text("Error: exit status 128")
Fetched(file, hash, dm) == Content("fetched", file, hash, dm)

\* ------------------------------------------------------------------ state
VARIABLES m, inflight, quit, pressed, dv, hl, trail

vars == <<m, inflight, quit, pressed, dv, hl, trail>>

Revision(prefix, term, hash) == [prefix |-> prefix, term |-> term, hash |-> hash]
FileInfo(path, index, count, hash) == [path |-> path, index |-> index, count |-> count, hash |-> hash]
Indicator(kind, term) == [kind |-> kind, term |-> term]

NoErr == "nil"

NewModel ==
    [ focus |-> focusSidebar,
      commits |-> <<>>, commitIndex |-> 0,
      currentFile |-> "",
      singleFileMode |-> FALSE,
      fileCommits |-> <<>>, fileCommitIndex |-> 0,
      displayMode |-> displayDiff,
      sourceMode |-> modeCommits,
      reflogEntries |-> <<>>, reflogIndex |-> 0,
      sourceCommits |-> <<>>, sourceIndex |-> 0,
      pickaxeTerm |-> "",
      textInputMode |-> "",
      err |-> NoErr,
      \* Sidebar
      items |-> <<>>, cursor |-> 0, filtering |-> FALSE,
      sidebarFocused |-> TRUE,
      revision |-> Revision("working copy", "", NoHash),
      \* DiffView
      diffFocused |-> FALSE,
      fileInfo |-> FileInfo("", -1, 0, NoHash),
      inFileMode |-> FALSE, viewMode |-> 0,
      sourceIndicator |-> Indicator("", ""),
      rawContent |-> NoContent ]

\* ------------------------------------------------------------------- Cmds
Cmd(name, file, hash, dm, term) == [name |-> name, file |-> file, hash |-> hash, dm |-> dm, term |-> term]

loadInitialData == Cmd("loadInitialData", "", NoHash, 0, "")

At(list, index) == list[index + 1]

\* what the bound method value reads from the Model when it runs
loadFilesForCurrentCommit(s) ==
    Cmd("loadFilesForCurrentCommit", "",
        IF s.commitIndex < Len(s.commits) THEN At(s.commits, s.commitIndex) ELSE NoHash, 0, "")

loadDiffForCurrentFile(s) ==
    IF s.currentFile = "" \/ s.commitIndex >= Len(s.commits)
    THEN Cmd("loadDiffForCurrentFile", "", NoHash, 0, "")
    ELSE Cmd("loadDiffForCurrentFile", s.currentFile, At(s.commits, s.commitIndex), 0, "")

loadFileCommits(s) == Cmd("loadFileCommits", s.currentFile, NoHash, 0, "")
loadReflog(s) == Cmd("loadReflog", s.currentFile, NoHash, 0, "")
loadPickaxeCommits(s) == Cmd("loadPickaxeCommits", s.currentFile, NoHash, 0, s.pickaxeTerm)

currentCommitForSource(s) ==
    CASE s.sourceMode = modeReflog ->
           IF s.reflogIndex < Len(s.reflogEntries)
           THEN [hash |-> At(s.reflogEntries, s.reflogIndex), ok |-> TRUE]
           ELSE [hash |-> NoHash, ok |-> FALSE]
      [] s.sourceMode = modePickaxe ->
           IF s.sourceIndex < Len(s.sourceCommits)
           THEN [hash |-> At(s.sourceCommits, s.sourceIndex), ok |-> TRUE]
           ELSE [hash |-> NoHash, ok |-> FALSE]
      [] OTHER ->
           IF s.fileCommitIndex < Len(s.fileCommits)
           THEN [hash |-> At(s.fileCommits, s.fileCommitIndex), ok |-> TRUE]
           ELSE [hash |-> NoHash, ok |-> FALSE]

\* loadContentForCurrentSource that asks for content although no commit is
\* at the index
loadContentForCurrentSourceUnchecked(s) ==
    LET c == currentCommitForSource(s) IN
    IF s.currentFile = ""
    THEN Cmd("emptyContent", "", NoHash, 0, "")
    ELSE Cmd("loadContentForCommit", s.currentFile, c.hash, s.displayMode, "")

loadContentForCurrentSource(s) ==
    LET c == currentCommitForSource(s) IN
    IF ~c.ok \/ s.currentFile = ""
    THEN Cmd("emptyContent", "", NoHash, 0, "")
    ELSE Cmd("loadContentForCommit", s.currentFile, c.hash, s.displayMode, "")

\* ------------------------------------------------------- panel refreshes
updateSourceIndicator(s) ==
    CASE s.sourceMode = modeReflog -> [s EXCEPT !.sourceIndicator = Indicator("REFLOG", "")]
      [] s.sourceMode = modePickaxe -> [s EXCEPT !.sourceIndicator = Indicator("S", s.pickaxeTerm)]
      [] OTHER -> [s EXCEPT !.sourceIndicator = Indicator("", "")]

updateRevisionDisplay(s) ==
    IF s.commitIndex < Len(s.commits)
    THEN LET commit == At(s.commits, s.commitIndex) IN
         [s EXCEPT !.revision = Revision("", "", commit),
                   !.fileInfo = FileInfo(s.currentFile, s.commitIndex, Len(s.commits), commit)]
    ELSE s

updateSingleFileModeDisplay(s) ==
    IF s.fileCommitIndex < Len(s.fileCommits)
    THEN LET commit == At(s.fileCommits, s.fileCommitIndex) IN
         [s EXCEPT !.revision = Revision("FILE", "", commit),
                   !.fileInfo = FileInfo(s.currentFile, s.fileCommitIndex, Len(s.fileCommits), commit)]
    ELSE s

\* updateReflogDisplay without the SetFileInfo call
updateReflogDisplaySidebarOnly(s) ==
    IF s.reflogIndex < Len(s.reflogEntries)
    THEN LET entry == At(s.reflogEntries, s.reflogIndex) IN
         [s EXCEPT !.revision = Revision("REFLOG", "", entry)]
    ELSE s

updateReflogDisplay(s) ==
    IF s.reflogIndex < Len(s.reflogEntries)
    THEN LET entry == At(s.reflogEntries, s.reflogIndex) IN
         [s EXCEPT !.revision = Revision("REFLOG", "", entry),
                   !.fileInfo = FileInfo(s.currentFile, s.reflogIndex, Len(s.reflogEntries), entry)]
    ELSE s

updateSourceDisplay(s) ==
    IF s.sourceIndex < Len(s.sourceCommits)
    THEN LET commit == At(s.sourceCommits, s.sourceIndex) IN
         [s EXCEPT !.revision = IF s.sourceMode = modePickaxe
                                THEN Revision("S", s.pickaxeTerm, commit)
                                ELSE Revision("", "", commit),
                   !.fileInfo = FileInfo(s.currentFile, s.sourceIndex, Len(s.sourceCommits), commit)]
    ELSE s

\* exitSingleFileMode leaving the display mode and the search term as they are
exitSingleFileModeKeepView(s) ==
    updateRevisionDisplay(
        [s EXCEPT !.singleFileMode = FALSE,
                  !.fileCommitIndex = 0,
                  !.sourceMode = modeCommits,
                  !.focus = focusSidebar,
                  !.sidebarFocused = TRUE,
                  !.diffFocused = FALSE,
                  !.inFileMode = FALSE, !.viewMode = 0,
                  !.sourceIndicator = Indicator("", "")])

\* exitSingleFileMode leaving the active source as it is
exitSingleFileModeKeepSource(s) ==
    updateRevisionDisplay(
        [s EXCEPT !.singleFileMode = FALSE,
                  !.fileCommitIndex = 0,
                  !.displayMode = displayDiff,
                  !.focus = focusSidebar,
                  !.sidebarFocused = TRUE,
                  !.diffFocused = FALSE,
                  !.inFileMode = FALSE, !.viewMode = 0,
                  !.sourceIndicator = Indicator("", "")])

exitSingleFileMode(s) ==
    updateRevisionDisplay(
        [s EXCEPT !.singleFileMode = FALSE,
                  !.fileCommitIndex = 0,
                  !.displayMode = displayDiff,
                  !.sourceMode = modeCommits,
                  !.pickaxeTerm = "",
                  !.focus = focusSidebar,
                  !.sidebarFocused = TRUE,
                  !.diffFocused = FALSE,
                  !.inFileMode = FALSE, !.viewMode = 0,
                  !.sourceIndicator = Indicator("", "")])

\* --------------------------------------------------------------- Sidebar
\* Sidebar.SelectedItem: the path under the list cursor, "" for nil
SelectedItem(s) == IF s.cursor < Len(s.items) THEN At(s.items, s.cursor) ELSE ""

\* Sidebar.Update: the list widget moves its cursor (j, k), opens its filter
\* (/), and while the filter is typed every key edits the filter, which may
\* put any item (pick) under the cursor, until enter or esc closes it.
SidebarUpdate(s, key, pick) ==
    IF s.filtering
    THEN CASE key \in {"esc", "enter"} -> [s EXCEPT !.filtering = FALSE]
           [] key = "ctrl+c" -> s
           [] OTHER -> [s EXCEPT !.cursor = pick]
    ELSE CASE key = "j" /\ s.cursor < Len(s.items) - 1 -> [s EXCEPT !.cursor = s.cursor + 1]
           [] key = "k" /\ s.cursor > 0 -> [s EXCEPT !.cursor = s.cursor - 1]
           [] key = "/" /\ Len(s.items) > 0 -> [s EXCEPT !.filtering = TRUE]
           [] OTHER -> s

\* ---------------------------------------------------------------- Update
\* What one call of Update returns: the Model, the Cmds, and whether the Cmd
\* is tea.Quit.
Res(s, cmds) == [m |-> s, cmds |-> cmds, quit |-> FALSE]
QuitRes(s) == [m |-> s, cmds |-> <<>>, quit |-> TRUE]

\* "Route to focused component"
Route(s, key, pick) ==
    IF ~s.singleFileMode /\ (s.filtering \/ s.focus = focusSidebar)
    THEN LET prevSelected == SelectedItem(s)
             s1 == SidebarUpdate(s, key, pick)
             currSelected == SelectedItem(s1)
         IN IF currSelected # "" /\ (prevSelected = "" \/ prevSelected # currSelected)
            THEN LET s2 == [s1 EXCEPT !.currentFile = currSelected]
                 IN Res(s2, <<loadDiffForCurrentFile(s2)>>)
            ELSE Res(s1, <<>>)
    ELSE Res(s, <<>>)

\* navigateNewer that steps the reflog and rewinds the file's commit list
navigateNewerRewind(s) ==
    CASE s.sourceMode = modeReflog ->
           IF s.reflogIndex > 0
           THEN LET s1 == updateReflogDisplay([s EXCEPT !.reflogIndex = s.reflogIndex - 1,
                                                        !.fileCommitIndex = 0])
                IN Res(s1, <<loadContentForCurrentSource(s1)>>)
           ELSE Res(s, <<>>)
      [] s.sourceMode = modePickaxe ->
           IF s.sourceIndex > 0
           THEN LET s1 == updateSourceDisplay([s EXCEPT !.sourceIndex = s.sourceIndex - 1])
                IN Res(s1, <<loadContentForCurrentSource(s1)>>)
           ELSE Res(s, <<>>)
      [] OTHER ->
           IF s.fileCommitIndex > 0
           THEN LET s1 == updateSingleFileModeDisplay([s EXCEPT !.fileCommitIndex = s.fileCommitIndex - 1])
                IN Res(s1, <<loadContentForCurrentSource(s1)>>)
           ELSE Res(s, <<>>)

navigateNewer(s) ==
    CASE s.sourceMode = modeReflog ->
           IF s.reflogIndex > 0
           THEN LET s1 == updateReflogDisplay([s EXCEPT !.reflogIndex = s.reflogIndex - 1])
                IN Res(s1, <<loadContentForCurrentSource(s1)>>)
           ELSE Res(s, <<>>)
      [] s.sourceMode = modePickaxe ->
           IF s.sourceIndex > 0
           THEN LET s1 == updateSourceDisplay([s EXCEPT !.sourceIndex = s.sourceIndex - 1])
                IN Res(s1, <<loadContentForCurrentSource(s1)>>)
           ELSE Res(s, <<>>)
      [] OTHER ->
           IF s.fileCommitIndex > 0
           THEN LET s1 == updateSingleFileModeDisplay([s EXCEPT !.fileCommitIndex = s.fileCommitIndex - 1])
                IN Res(s1, <<loadContentForCurrentSource(s1)>>)
           ELSE Res(s, <<>>)

\* navigateOlder stepping whenever the index is below the length
navigateOlderPastEnd(s) ==
    CASE s.sourceMode = modeReflog ->
           IF s.reflogIndex < Len(s.reflogEntries)
           THEN LET s1 == updateReflogDisplay([s EXCEPT !.reflogIndex = s.reflogIndex + 1])
                IN Res(s1, <<loadContentForCurrentSource(s1)>>)
           ELSE Res(s, <<>>)
      [] s.sourceMode = modePickaxe ->
           IF s.sourceIndex < Len(s.sourceCommits)
           THEN LET s1 == updateSourceDisplay([s EXCEPT !.sourceIndex = s.sourceIndex + 1])
                IN Res(s1, <<loadContentForCurrentSource(s1)>>)
           ELSE Res(s, <<>>)
      [] OTHER ->
           IF s.fileCommitIndex < Len(s.fileCommits)
           THEN LET s1 == updateSingleFileModeDisplay([s EXCEPT !.fileCommitIndex = s.fileCommitIndex + 1])
                IN Res(s1, <<loadContentForCurrentSource(s1)>>)
           ELSE Res(s, <<>>)

navigateOlder(s) ==
    CASE s.sourceMode = modeReflog ->
           IF s.reflogIndex < Len(s.reflogEntries) - 1
           THEN LET s1 == updateReflogDisplay([s EXCEPT !.reflogIndex = s.reflogIndex + 1])
                IN Res(s1, <<loadContentForCurrentSource(s1)>>)
           ELSE Res(s, <<>>)
      [] s.sourceMode = modePickaxe ->
           IF s.sourceIndex < Len(s.sourceCommits) - 1
           THEN LET s1 == updateSourceDisplay([s EXCEPT !.sourceIndex = s.sourceIndex + 1])
                IN Res(s1, <<loadContentForCurrentSource(s1)>>)
           ELSE Res(s, <<>>)
      [] OTHER ->
           IF s.fileCommitIndex < Len(s.fileCommits) - 1
           THEN LET s1 == updateSingleFileModeDisplay([s EXCEPT !.fileCommitIndex = s.fileCommitIndex + 1])
                IN Res(s1, <<loadContentForCurrentSource(s1)>>)
           ELSE Res(s, <<>>)

\* the search input accepting whatever value it holds on enter
UpdateTextInputAnyValue(s, key, value) ==
    CASE key = "enter" ->
           IF s.textInputMode = "pickaxe"
           THEN LET s1 == updateSourceIndicator(
                              [s EXCEPT !.textInputMode = "",
                                        !.pickaxeTerm = value,
                                        !.sourceMode = modePickaxe,
                                        !.sourceIndex = 0])
                IN Res(s1, <<loadPickaxeCommits(s1)>>)
           ELSE Res([s EXCEPT !.textInputMode = ""], <<>>)
      [] key = "esc" -> Res([s EXCEPT !.textInputMode = ""], <<>>)
      [] OTHER -> Res(s, <<>>)

\* keys while the search-term input is open; value is textInput.Value(), the
\* text the keys of the default branch have typed since the input was opened
UpdateTextInput(s, key, value) ==
    CASE key = "enter" ->
           IF value # "" /\ s.textInputMode = "pickaxe"
           THEN LET s1 == updateSourceIndicator(
                              [s EXCEPT !.textInputMode = "",
                                        !.pickaxeTerm = value,
                                        !.sourceMode = modePickaxe,
                                        !.sourceIndex = 0])
                IN Res(s1, <<loadPickaxeCommits(s1)>>)
           ELSE Res([s EXCEPT !.textInputMode = ""], <<>>)
      [] key = "esc" -> Res([s EXCEPT !.textInputMode = ""], <<>>)
      [] OTHER -> Res(s, <<>>)

\* a quit that waits until no load is outstanding
UpdateQuitWhenIdle(s, key, pick) ==
    IF ~s.filtering
    THEN IF s.singleFileMode
         THEN LET s1 == exitSingleFileMode(s) IN Res(s1, <<loadDiffForCurrentFile(s1)>>)
         ELSE IF inflight = EmptyBag THEN QuitRes(s) ELSE Res(s, <<>>)
    ELSE Route(s, key, pick)

\* case "q", "ctrl+c"
UpdateQuit(s, key, pick) ==
    IF ~s.filtering
    THEN IF s.singleFileMode
         THEN LET s1 == exitSingleFileMode(s) IN Res(s1, <<loadDiffForCurrentFile(s1)>>)
         ELSE QuitRes(s)
    ELSE Route(s, key, pick)

\* case "tab"
UpdateTab(s, key, pick) ==
    IF ~s.filtering
    THEN IF s.focus = focusSidebar
         THEN Res([s EXCEPT !.focus = focusDiffView, !.sidebarFocused = FALSE, !.diffFocused = TRUE], <<>>)
         ELSE Res([s EXCEPT !.focus = focusSidebar, !.sidebarFocused = TRUE, !.diffFocused = FALSE], <<>>)
    ELSE Route(s, key, pick)

\* case " " and case "2" without the !m.singleFileMode condition
UpdateEnterSingleFileAgain(s, key, pick) ==
    IF ~s.filtering /\ s.currentFile # ""
    THEN LET s1 == updateSourceIndicator(
                       [s EXCEPT !.singleFileMode = TRUE,
                                 !.fileCommitIndex = 0,
                                 !.focus = focusDiffView,
                                 !.sidebarFocused = FALSE,
                                 !.diffFocused = TRUE,
                                 !.inFileMode = TRUE, !.viewMode = s.displayMode])
         IN Res(s1, <<loadFileCommits(s1)>>)
    ELSE Route(s, key, pick)

\* case " " and case "2"
UpdateEnterSingleFile(s, key, pick) ==
    IF ~s.filtering /\ s.currentFile # "" /\ ~s.singleFileMode
    THEN LET s1 == updateSourceIndicator(
                       [s EXCEPT !.singleFileMode = TRUE,
                                 !.fileCommitIndex = 0,
                                 !.focus = focusDiffView,
                                 !.sidebarFocused = FALSE,
                                 !.diffFocused = TRUE,
                                 !.inFileMode = TRUE, !.viewMode = s.displayMode])
         IN Res(s1, <<loadFileCommits(s1)>>)
    ELSE Route(s, key, pick)

\* case "]"
UpdateNewer(s, key, pick) ==
    IF ~s.filtering
    THEN IF s.singleFileMode
         THEN navigateNewer(s)
         ELSE IF s.commitIndex > 0
              THEN LET s1 == [s EXCEPT !.commitIndex = s.commitIndex - 1]
                   IN Res(s1, <<loadFilesForCurrentCommit(s1)>>)
              ELSE Route(s, key, pick)
    ELSE Route(s, key, pick)

\* case "["
UpdateOlder(s, key, pick) ==
    IF ~s.filtering
    THEN IF s.singleFileMode
         THEN navigateOlder(s)
         ELSE IF s.commitIndex < Len(s.commits) - 1
              THEN LET s1 == [s EXCEPT !.commitIndex = s.commitIndex + 1]
                   IN Res(s1, <<loadFilesForCurrentCommit(s1)>>)
              ELSE Route(s, key, pick)
    ELSE Route(s, key, pick)

\* case "1"
UpdateCommitListMode(s, key, pick) ==
    IF ~s.filtering /\ s.singleFileMode
    THEN LET s1 == exitSingleFileMode(s) IN Res(s1, <<loadDiffForCurrentFile(s1)>>)
    ELSE Route(s, key, pick)

\* case "c" reloading with the display mode it had before the key
UpdateCycleDisplayStaleMode(s, key, pick) ==
    IF s.singleFileMode
    THEN LET dm == (s.displayMode + 1) % NumDisplayModes
             s1 == [s EXCEPT !.displayMode = dm, !.inFileMode = TRUE, !.viewMode = dm]
         IN Res(s1, <<loadContentForCurrentSource(s)>>)
    ELSE Route(s, key, pick)

\* case "c"
UpdateCycleDisplay(s, key, pick) ==
    IF s.singleFileMode
    THEN LET dm == (s.displayMode + 1) % NumDisplayModes
             s1 == [s EXCEPT !.displayMode = dm, !.inFileMode = TRUE, !.viewMode = dm]
         IN Res(s1, <<loadContentForCurrentSource(s1)>>)
    ELSE Route(s, key, pick)

\* case "r"
UpdateReflog(s, key, pick) ==
    IF s.singleFileMode
    THEN IF s.sourceMode = modeReflog
         THEN LET s1 == updateSingleFileModeDisplay(
                            updateSourceIndicator([s EXCEPT !.sourceMode = modeCommits]))
              IN Res(s1, <<loadContentForCurrentSource(s1)>>)
         ELSE LET s1 == updateSourceIndicator(
                            [s EXCEPT !.sourceMode = modeReflog, !.reflogIndex = 0])
              IN Res(s1, <<loadReflog(s1)>>)
    ELSE Route(s, key, pick)

\* case "s"
UpdatePickaxe(s, key, pick) ==
    IF s.singleFileMode
    THEN IF s.sourceMode = modePickaxe
         THEN LET s1 == updateSingleFileModeDisplay(
                            updateSourceIndicator(
                                [s EXCEPT !.sourceMode = modeCommits, !.pickaxeTerm = ""]))
              IN Res(s1, <<loadContentForCurrentSource(s1)>>)
         ELSE Res([s EXCEPT !.textInputMode = "pickaxe"], <<>>)
    ELSE Route(s, key, pick)

\* case "esc" that leaves single-file mode whatever the source
UpdateEscOneStep(s, key, pick) ==
    IF ~s.filtering
    THEN IF s.singleFileMode
         THEN LET s1 == exitSingleFileMode(s) IN Res(s1, <<loadDiffForCurrentFile(s1)>>)
         ELSE IF s.commitIndex > 0
              THEN LET s1 == [s EXCEPT !.commitIndex = 0]
                   IN Res(s1, <<loadFilesForCurrentCommit(s1)>>)
              ELSE Route(s, key, pick)
    ELSE Route(s, key, pick)

\* case "esc"
UpdateEsc(s, key, pick) ==
    IF ~s.filtering
    THEN IF s.singleFileMode
         THEN IF s.sourceMode # modeCommits
              THEN LET s1 == updateSingleFileModeDisplay(
                                 updateSourceIndicator(
                                     [s EXCEPT !.sourceMode = modeCommits, !.pickaxeTerm = ""]))
                   IN Res(s1, <<loadContentForCurrentSource(s1)>>)
              ELSE LET s1 == exitSingleFileMode(s) IN Res(s1, <<loadDiffForCurrentFile(s1)>>)
         ELSE IF s.commitIndex > 0
              THEN LET s1 == [s EXCEPT !.commitIndex = 0]
                   IN Res(s1, <<loadFilesForCurrentCommit(s1)>>)
              ELSE Route(s, key, pick)
    ELSE Route(s, key, pick)

\* Update handing only enter and esc to the open search input
UpdateKeyNoCapture(s, key, pick, value) ==
    IF s.textInputMode # "" /\ key \in {"enter", "esc"}
    THEN UpdateTextInput(s, key, value)
    ELSE CASE key \in {"q", "ctrl+c"} -> UpdateQuit(s, key, pick)
           [] key = "tab" -> UpdateTab(s, key, pick)
           [] key \in {" ", "2"} -> UpdateEnterSingleFile(s, key, pick)
           [] key = "]" -> UpdateNewer(s, key, pick)
           [] key = "[" -> UpdateOlder(s, key, pick)
           [] key = "1" -> UpdateCommitListMode(s, key, pick)
           [] key = "c" -> UpdateCycleDisplay(s, key, pick)
           [] key = "r" -> UpdateReflog(s, key, pick)
           [] key = "s" -> UpdatePickaxe(s, key, pick)
           [] key = "esc" -> UpdateEsc(s, key, pick)
           [] OTHER -> Route(s, key, pick)

\* Update for a tea.KeyMsg
UpdateKey(s, key, pick, value) ==
    IF s.textInputMode # ""
    THEN UpdateTextInput(s, key, value)
    ELSE CASE key \in {"q", "ctrl+c"} -> UpdateQuit(s, key, pick)
           [] key = "tab" -> UpdateTab(s, key, pick)
           [] key \in {" ", "2"} -> UpdateEnterSingleFile(s, key, pick)
           [] key = "]" -> UpdateNewer(s, key, pick)
           [] key = "[" -> UpdateOlder(s, key, pick)
           [] key = "1" -> UpdateCommitListMode(s, key, pick)
           [] key = "c" -> UpdateCycleDisplay(s, key, pick)
           [] key = "r" -> UpdateReflog(s, key, pick)
           [] key = "s" -> UpdatePickaxe(s, key, pick)
           [] key = "esc" -> UpdateEsc(s, key, pick)
           [] OTHER -> Route(s, key, pick)

\* Update for the messages the Cmds deliver
UpdateInitialData(s, commits, files) ==
    LET s1 == [s EXCEPT !.commits = commits, !.items = files]
    IN IF Len(files) > 0
       THEN LET s2 == [s1 EXCEPT !.currentFile = files[1]]
            IN Res(updateRevisionDisplay(s2), <<loadDiffForCurrentFile(s2)>>)
       ELSE Res(updateRevisionDisplay(s1), <<>>)

\* filesLoadedMsg keeping the selected path of the previous file set
UpdateFilesLoadedKeepPath(s, files) ==
    LET s1 == [s EXCEPT !.items = files]
    IN IF Len(files) > 0
       THEN LET s2 == [s1 EXCEPT !.currentFile = files[1]]
            IN Res(updateRevisionDisplay(s2), <<loadDiffForCurrentFile(s2)>>)
       ELSE Res(updateRevisionDisplay(s1), <<loadDiffForCurrentFile(s1)>>)

UpdateFilesLoaded(s, files) ==
    LET s1 == [s EXCEPT !.items = files]
    IN IF Len(files) > 0
       THEN LET s2 == [s1 EXCEPT !.currentFile = files[1]]
            IN Res(updateRevisionDisplay(s2), <<loadDiffForCurrentFile(s2)>>)
       ELSE Res(updateRevisionDisplay(
                    [s1 EXCEPT !.currentFile = "", !.rawContent = NoFilesChanged]), <<>>)

UpdateFileCommitsLoaded(s, commits) ==
    LET s1 == updateSingleFileModeDisplay([s EXCEPT !.fileCommits = commits])
    IN Res(s1, <<loadContentForCurrentSource(s1)>>)

UpdateReflogLoaded(s, entries) ==
    LET s1 == updateReflogDisplay([s EXCEPT !.reflogEntries = entries])
    IN Res(s1, <<loadContentForCurrentSource(s1)>>)

\* errMsg: "No commits found", or "Error: ..." when the search failed
PickaxeErrMsg(c, failed) ==
    IF failed THEN ErrorText ELSE NoCommitsFound

\* the sourceCommitsLoadedMsg case falling back on an error only
UpdateSourceCommitsLoadedErrOnly(s, commits, failed, errMsg) ==
    IF failed
    THEN Res([updateSingleFileModeDisplay(
                  updateSourceIndicator(
                      [s EXCEPT !.sourceMode = modeCommits, !.pickaxeTerm = ""]))
                EXCEPT !.rawContent = errMsg], <<>>)
    ELSE LET s1 == updateSourceDisplay([s EXCEPT !.sourceCommits = commits])
         IN Res(s1, <<loadContentForCurrentSource(s1)>>)

UpdateSourceCommitsLoaded(s, commits, failed, errMsg) ==
    IF failed \/ Len(commits) = 0
    THEN Res([updateSingleFileModeDisplay(
                  updateSourceIndicator(
                      [s EXCEPT !.sourceMode = modeCommits, !.pickaxeTerm = ""]))
                EXCEPT !.rawContent = errMsg], <<>>)
    ELSE LET s1 == updateSourceDisplay([s EXCEPT !.sourceCommits = commits])
         IN Res(s1, <<loadContentForCurrentSource(s1)>>)

\* DiffView.SetContent
SetContent(s, content) == [s EXCEPT !.rawContent = content]

\* diffLoadedMsg answered by another load of the diff
UpdateDiffLoadedReload(s, content) ==
    Res(SetContent(s, content), <<loadDiffForCurrentFile(s)>>)

UpdateDiffLoaded(s, content) == Res(SetContent(s, content), <<>>)

UpdateErrorMsg(s, e) == Res([s EXCEPT !.err = e], <<>>)

\* Model.View: the error alone once m.err is set, the panels otherwise
View(s) == IF s.err # NoErr THEN "Error" ELSE "panels"

\* loadContentForCommit dropping the error of the provider
loadContentForCommitErrDropped(file, hash, dm, reply) ==
    CASE reply = "fail" -> NoChanges
      [] reply = "empty" -> NoChanges
      [] OTHER -> Fetched(file, hash, dm)

\* loadContentForCommit: the message a content fetch turns into
loadContentForCommit(file, hash, dm, reply) ==
    CASE reply = "fail" -> ErrorText
      [] reply = "empty" -> NoChanges
      [] OTHER -> Fetched(file, hash, dm)

\* --------------------------------------------------------- diff annotator
\* Text is modelled at the level the code inspects it.  A line is a sequence
\* of characters; an ANSI escape sequence (ESC [ digits m) is one element.
\* A content string is the sequence of its lines (strings.Split(content,
\* "\n")), so the empty string is the one empty line.
\* the escape sequence "\x1b[<code>m"
SGR(code) == "ESC[" \o code \o "m"

\* ansiRegex: \x1b\[[0-9;]*m, over the codes that occur
ansiRegex(ch) == ch \in {SGR(code) : code \in {"0", "7", "27", "31", "32", "36", "1;31"}}

\* stripANSI: the line without its escape sequences
stripANSI(line) == SelectSeq(line, LAMBDA ch : ~ansiRegex(ch))

\* the regexp engine's loops: first position at or after i whose character
\* is not in S
RECURSIVE SkipSet(_, _, _)
SkipSet(s, i, S) ==
    IF i <= Len(s) /\ s[i] \in S THEN SkipSet(s, i + 1, S) ELSE i

\* fmt.Sscanf(digits, "%d", ...)
RECURSIVE Sscanf(_, _, _, _)
Sscanf(s, i, j, acc) ==
    IF i >= j THEN acc ELSE Sscanf(s, i + 1, j, acc * 10 + (CHOOSE n \in 0..9 : ToString(n) = s[i]))

\* \s+ sign (\d+) (?:,\d+)? starting at position i
RegexSide(s, i, sign) ==
    LET Digits == {ToString(n) : n \in 0..9}
        j == SkipSet(s, i, {" ", "TAB"})
        k == SkipSet(s, j + 1, Digits)
        k2 == SkipSet(s, k + 1, Digits)
    IN IF j > i /\ j <= Len(s) /\ s[j] = sign /\ k > j + 1
       THEN [ok |-> TRUE, num |-> Sscanf(s, j + 1, k, 0),
             end |-> IF k <= Len(s) /\ s[k] = "," /\ k2 > k + 1 THEN k2 ELSE k]
       ELSE [ok |-> FALSE, num |-> 0, end |-> i]

\* hunkHeaderRegex with its two captures exchanged
hunkHeaderRegexSwapped(s) ==
    IF Len(s) >= 2 /\ s[1] = "@" /\ s[2] = "@"
    THEN LET a == RegexSide(s, 3, "-")
             b == RegexSide(s, a.end, "+")
             j == SkipSet(s, b.end, {" ", "TAB"})
         IN IF a.ok /\ b.ok /\ j > b.end /\ j + 1 <= Len(s) /\ s[j] = "@" /\ s[j + 1] = "@"
            THEN [ok |-> TRUE, old |-> b.num, new |-> a.num]
            ELSE [ok |-> FALSE, old |-> 0, new |-> 0]
    ELSE [ok |-> FALSE, old |-> 0, new |-> 0]

\* hunkHeaderRegex.FindStringSubmatch(stripped):
\* ^@@\s+-(\d+)(?:,\d+)?\s+\+(\d+)(?:,\d+)?\s+@@
hunkHeaderRegex(s) ==
    IF Len(s) >= 2 /\ s[1] = "@" /\ s[2] = "@"
    THEN LET a == RegexSide(s, 3, "-")
             b == RegexSide(s, a.end, "+")
             j == SkipSet(s, b.end, {" ", "TAB"})
         IN IF a.ok /\ b.ok /\ j > b.end /\ j + 1 <= Len(s) /\ s[j] = "@" /\ s[j + 1] = "@"
            THEN [ok |-> TRUE, old |-> a.num, new |-> b.num]
            ELSE [ok |-> FALSE, old |-> 0, new |-> 0]
    ELSE [ok |-> FALSE, old |-> 0, new |-> 0]

\* stripDiffHeader: the lines from the first one that starts with @@, all of
\* them when there is none
stripDiffHeader(content) ==
    LET HasPrefixAtAt(s) == Len(s) >= 2 /\ s[1] = "@" /\ s[2] = "@"
        starts == {i \in 1..Len(content) : HasPrefixAtAt(stripANSI(content[i]))}
    IN IF starts = {} THEN content
       ELSE LET first == CHOOSE i \in starts : \A k \in starts : i <= k
            IN SubSeq(content, first, Len(content))

\* highlightDiff's loops
RECURSIVE PrefixLoop(_, _, _, _)
PrefixLoop(thisRunes, otherRunes, prefixLen, minLen) ==
    IF prefixLen < minLen /\ thisRunes[prefixLen + 1] = otherRunes[prefixLen + 1]
    THEN PrefixLoop(thisRunes, otherRunes, prefixLen + 1, minLen)
    ELSE prefixLen

RECURSIVE SuffixLoop(_, _, _, _)
SuffixLoop(thisRunes, otherRunes, suffixLen, limit) ==
    IF suffixLen < limit
       /\ thisRunes[Len(thisRunes) - suffixLen] = otherRunes[Len(otherRunes) - suffixLen]
    THEN SuffixLoop(thisRunes, otherRunes, suffixLen + 1, limit)
    ELSE suffixLen

\* highlightDiff with a common suffix that may run into the common prefix
highlightDiffOverlap(thisText, otherText, baseColor) ==
    LET minLen == IF Len(otherText) < Len(thisText) THEN Len(otherText) ELSE Len(thisText)
        prefixLen == PrefixLoop(thisText, otherText, 0, minLen)
        suffixLen == SuffixLoop(thisText, otherText, 0, minLen)
        changeStart == prefixLen
        changeEnd == Len(thisText) - suffixLen
    IN IF changeStart >= changeEnd
       THEN <<SGR(baseColor)>> \o thisText \o <<SGR("0")>>
       ELSE <<SGR(baseColor)>>
            \o SubSeq(thisText, 1, changeStart)
            \o <<SGR("7")>>
            \o SubSeq(thisText, changeStart + 1, changeEnd)
            \o <<SGR("27")>>
            \o SubSeq(thisText, changeEnd + 1, Len(thisText))
            \o <<SGR("0")>>

\* highlightDiff: thisText in baseColor, its changed middle in reverse video
highlightDiff(thisText, otherText, baseColor) ==
    LET minLen == IF Len(otherText) < Len(thisText) THEN Len(otherText) ELSE Len(thisText)
        prefixLen == PrefixLoop(thisText, otherText, 0, minLen)
        suffixLen == SuffixLoop(thisText, otherText, 0, minLen - prefixLen)
        changeStart == prefixLen
        changeEnd == Len(thisText) - suffixLen
    IN IF changeStart >= changeEnd
       THEN <<SGR(baseColor)>> \o thisText \o <<SGR("0")>>
       ELSE <<SGR(baseColor)>>
            \o SubSeq(thisText, 1, changeStart)
            \o <<SGR("7")>>
            \o SubSeq(thisText, changeStart + 1, changeEnd)
            \o <<SGR("27")>>
            \o SubSeq(thisText, changeEnd + 1, Len(thisText))
            \o <<SGR("0")>>

\* a line of the rendered text: the two number columns (Blank for an empty
\* one), the colour of the number, and the text right of the bar; a line
\* written without columns has gutter = FALSE
Blank == -1
Rendered(old, new, tint, text) ==
    [gutter |-> TRUE, old |-> old, new |-> new, tint |-> tint, text |-> text]

\* diffBlock
EmptyBlock == [minusTexts |-> <<>>, plusTexts |-> <<>>, minusNums |-> <<>>, plusNums |-> <<>>]

\* flushBlock that pairs nothing
flushBlockUnpaired(block) ==
    [i \in 1..Len(block.minusTexts) |->
        Rendered(block.minusNums[i], Blank, SGR("31"),
                 <<SGR("31")>> \o block.minusTexts[i] \o <<SGR("0")>>)]
    \o [i \in 1..Len(block.plusTexts) |->
        Rendered(Blank, block.plusNums[i], SGR("32"),
                 <<SGR("32")>> \o block.plusTexts[i] \o <<SGR("0")>>)]

\* flushBlock that emits the buffered additions before the deletions
flushBlockPlusFirst(block) ==
    LET minCount == Len(block.minusTexts)
        plusCount == Len(block.plusTexts)
        pairCount == IF plusCount < minCount THEN plusCount ELSE minCount
        minus == [i \in 1..minCount |->
                    IF i <= pairCount
                    THEN Rendered(block.minusNums[i], Blank, SGR("31"),
                                  <<SGR("31"), "-", SGR("0")>>
                                  \o highlightDiff(Tail(block.minusTexts[i]),
                                                   Tail(block.plusTexts[i]), "31"))
                    ELSE Rendered(block.minusNums[i], Blank, SGR("31"),
                                  <<SGR("31")>> \o block.minusTexts[i] \o <<SGR("0")>>)]
        plus == [i \in 1..plusCount |->
                    IF i <= pairCount
                    THEN Rendered(Blank, block.plusNums[i], SGR("32"),
                                  <<SGR("32"), "+", SGR("0")>>
                                  \o highlightDiff(Tail(block.plusTexts[i]),
                                                   Tail(block.minusTexts[i]), "32"))
                    ELSE Rendered(Blank, block.plusNums[i], SGR("32"),
                                  <<SGR("32")>> \o block.plusTexts[i] \o <<SGR("0")>>)]
    IN plus \o minus

\* flushBlock: the lines the buffered block adds to result
flushBlock(block) ==
    LET minCount == Len(block.minusTexts)
        plusCount == Len(block.plusTexts)
        pairCount == IF plusCount < minCount THEN plusCount ELSE minCount
        minus == [i \in 1..minCount |->
                    IF i <= pairCount
                    THEN Rendered(block.minusNums[i], Blank, SGR("31"),
                                  <<SGR("31"), "-", SGR("0")>>
                                  \o highlightDiff(Tail(block.minusTexts[i]),
                                                   Tail(block.plusTexts[i]), "31"))
                    ELSE Rendered(block.minusNums[i], Blank, SGR("31"),
                                  <<SGR("31")>> \o block.minusTexts[i] \o <<SGR("0")>>)]
        plus == [i \in 1..plusCount |->
                    IF i <= pairCount
                    THEN Rendered(Blank, block.plusNums[i], SGR("32"),
                                  <<SGR("32"), "+", SGR("0")>>
                                  \o highlightDiff(Tail(block.plusTexts[i]),
                                                   Tail(block.minusTexts[i]), "32"))
                    ELSE Rendered(Blank, block.plusNums[i], SGR("32"),
                                  <<SGR("32")>> \o block.plusTexts[i] \o <<SGR("0")>>)]
    IN minus \o plus

\* the locals of addLineNumbers before its loop
LoopStart ==
    [result |-> <<>>, hunkPositions |-> <<>>, oldLine |-> 0, newLine |-> 0,
     inHunk |-> FALSE, block |-> EmptyBlock,
     collectingMinus |-> FALSE, collectingPlus |-> FALSE]

\* "if collectingMinus || collectingPlus { flushBlock(&block, &result) ... }"
FlushPending(st) ==
    IF st.collectingMinus \/ st.collectingPlus
    THEN [st EXCEPT !.result = @ \o flushBlock(st.block),
                    !.block = EmptyBlock,
                    !.collectingMinus = FALSE, !.collectingPlus = FALSE]
    ELSE st

\* one iteration of the loop of addLineNumbers
LoopBody(st, line) ==
    LET stripped == stripANSI(line)
        matches == hunkHeaderRegex(stripped)
    IN CASE matches.ok ->
              LET st1 == FlushPending(st)
              IN [st1 EXCEPT !.oldLine = matches.old, !.newLine = matches.new,
                             !.inHunk = TRUE,
                             !.hunkPositions = Append(@, Len(st1.result)),
                             !.result = Append(@, Rendered(Blank, Blank, "", line))]
         [] ~matches.ok /\ ~st.inHunk ->
              [st EXCEPT !.result = Append(@, Rendered(Blank, Blank, "", line))]
         [] ~matches.ok /\ st.inHunk /\ Len(stripped) = 0 ->
              LET st1 == FlushPending(st)
              IN [st1 EXCEPT !.result = Append(@, Rendered(st.oldLine, st.newLine, "", line)),
                             !.oldLine = @ + 1, !.newLine = @ + 1]
         [] ~matches.ok /\ st.inHunk /\ Len(stripped) > 0 /\ stripped[1] = "-" ->
              LET st1 == IF st.collectingPlus THEN FlushPending(st) ELSE st
              IN [st1 EXCEPT !.block.minusTexts = Append(@, stripped),
                             !.block.minusNums = Append(@, st.oldLine),
                             !.collectingMinus = TRUE,
                             !.oldLine = @ + 1]
         [] ~matches.ok /\ st.inHunk /\ Len(stripped) > 0 /\ stripped[1] = "+" ->
              [st EXCEPT !.collectingMinus = FALSE, !.collectingPlus = TRUE,
                         !.block.plusTexts = Append(@, stripped),
                         !.block.plusNums = Append(@, st.newLine),
                         !.newLine = @ + 1]
         [] OTHER ->
              LET st1 == FlushPending(st)
              IN [st1 EXCEPT !.result = Append(@, Rendered(st.oldLine, st.newLine, "", line)),
                             !.oldLine = @ + 1, !.newLine = @ + 1]

RECURSIVE Loop(_, _, _)
Loop(st, lines, i) ==
    IF i > Len(lines) THEN st ELSE Loop(LoopBody(st, lines[i]), lines, i + 1)

\* addLineNumbers: the rendered lines and the positions of the hunk headers
addLineNumbers(content) ==
    IF content = << <<>> >>
    THEN [rendered |-> <<[gutter |-> FALSE, old |-> Blank, new |-> Blank, tint |-> "",
                       text |-> <<>>]>>,
          hunkPositions |-> <<>>]
    ELSE LET st == FlushPending(Loop(LoopStart, content, 1))
         IN [rendered |-> st.result, hunkPositions |-> st.hunkPositions]

\* DiffView, as far as its text goes
NewDiffView ==
    [rawContent |-> << <<>> >>, showDescription |-> FALSE,
     hunkPositions |-> <<>>, rendered |-> <<>>,
     YOffset |-> 0, Height |-> 20 - 2]

\* updateContent taking the hunk positions of the text before header stripping
updateContentRawPositions(d) ==
    LET content == IF ~d.showDescription THEN stripDiffHeader(d.rawContent) ELSE d.rawContent
        out == addLineNumbers(content)
    IN [d EXCEPT !.hunkPositions = addLineNumbers(d.rawContent).hunkPositions,
                 !.rendered = out.rendered]

\* updateContent that adds the hunk positions to those of the text before
updateContentKeepPositions(d) ==
    LET content == IF ~d.showDescription THEN stripDiffHeader(d.rawContent) ELSE d.rawContent
        out == addLineNumbers(content)
    IN [d EXCEPT !.hunkPositions = @ \o out.hunkPositions, !.rendered = out.rendered]

\* DiffView.updateContent
updateContent(d) ==
    LET content == IF ~d.showDescription THEN stripDiffHeader(d.rawContent) ELSE d.rawContent
        out == addLineNumbers(content)
    IN [d EXCEPT !.hunkPositions = out.hunkPositions, !.rendered = out.rendered]

\* DiffView.SetContent on a content string
SetContentText(d, content) == updateContent([d EXCEPT !.rawContent = content])

\* ToggleDescription flipping the flag and leaving the text as rendered
ToggleDescriptionStale(d) == [d EXCEPT !.showDescription = ~d.showDescription]

\* DiffView.ToggleDescription
ToggleDescription(d) == updateContent([d EXCEPT !.showDescription = ~d.showDescription])

\* viewport.SetYOffset: the viewport keeps its offset between 0 and the
\* offset that shows the last page
SetYOffset(d, n) ==
    LET maxYOffset == IF Len(d.rendered) > d.Height THEN Len(d.rendered) - d.Height ELSE 0
    IN [d EXCEPT !.YOffset = IF n < 0 THEN 0 ELSE IF n > maxYOffset THEN maxYOffset ELSE n]

\* DiffView.jumpToNextHunk
jumpToNextHunk(d) ==
    LET later == {i \in 1..Len(d.hunkPositions) : d.hunkPositions[i] > d.YOffset}
    IN IF later = {} THEN d
       ELSE SetYOffset(d, d.hunkPositions[CHOOSE i \in later : \A j \in later : i <= j])

\* DiffView.jumpToPrevHunk
jumpToPrevHunk(d) ==
    LET earlier == {i \in 1..Len(d.hunkPositions) : d.hunkPositions[i] < d.YOffset}
    IN IF earlier = {} THEN d
       ELSE SetYOffset(d, d.hunkPositions[CHOOSE i \in earlier : \A j \in earlier : i >= j])

\* highlightDiff not called yet
NoHighlight == [thisText |-> <<>>, otherText |-> <<>>, baseColor |-> "31", called |-> FALSE, out |-> <<>>]

\* ---------------------------------------------------------------- actions
Keys == {"q", "ctrl+c", "tab", " ", "2", "]", "[", "1", "c", "r", "s", "esc", "j", "k", "/", "enter", "x"}

SeqToBag(cmds) == [c \in {cmds[i] : i \in DOMAIN cmds} |-> Cardinality({i \in DOMAIN cmds : cmds[i] = c})]

\* the event loop applies what Update returned
Apply(res, done) ==
    /\ m' = res.m
    /\ inflight' = (inflight (-) done) (+) SeqToBag(res.cmds)
    /\ quit' = res.quit
    /\ UNCHANGED <<dv, hl, trail>>

\* a key that changed nothing and dispatched nothing
Ignored(res) == res.m = m /\ res.cmds = <<>> /\ ~res.quit

Pending(name) == {c \in BagToSet(inflight) : c.name = name}

\* a key press; the user presses a key only while fewer than MaxInFlight loads
\* are out, and at most MaxKeys keys that have an effect
Key(key, pick, value) ==
    /\ ~quit
    /\ BagCardinality(inflight) < MaxInFlight
    /\ pressed < MaxKeys
    /\ LET res == UpdateKey(m, key, pick, value)
       IN /\ Apply(res, EmptyBag)
          /\ pressed' = IF Ignored(res) THEN pressed ELSE pressed + 1

KeyPress ==
    \E key \in Keys :
        \E pick \in 0..(IF m.filtering /\ key \notin {"esc", "enter", "ctrl+c"} THEN Len(m.items) - 1 ELSE 0) :
            \E value \in (IF m.textInputMode # "" /\ key = "enter" THEN Terms \cup {""} ELSE {""}) :
                Key(key, pick, value)

FetchInitialData(c, r1, r2) ==
    /\ ~quit
    /\ c \in Pending("loadInitialData")
    /\ UNCHANGED pressed
    /\ LET commits == GetRecentCommits(r1)
           files == IF Len(commits) > 0 THEN GetFilesInCommit(commits[1], r2) ELSE <<>>
       IN Apply(UpdateInitialData(m, commits, files), SetToBag({c}))

FetchFiles(c, reply) ==
    /\ ~quit
    /\ c \in Pending("loadFilesForCurrentCommit")
    /\ UNCHANGED pressed
    /\ LET files == IF c.hash # NoHash THEN GetFilesInCommit(c.hash, reply) ELSE <<>>
       IN Apply(UpdateFilesLoaded(m, files), SetToBag({c}))

FetchDiff(c, reply) ==
    /\ ~quit
    /\ c \in Pending("loadDiffForCurrentFile")
    /\ UNCHANGED pressed
    /\ Apply(CASE c.file = "" -> UpdateDiffLoaded(m, NoContent)
               [] c.file # "" /\ reply = "fail" -> UpdateErrorMsg(m, "fetch failed")
               [] c.file # "" /\ reply = "empty" -> UpdateDiffLoaded(m, NoChanges)
               [] OTHER -> UpdateDiffLoaded(m, Fetched(c.file, c.hash, displayDiff)),
             SetToBag({c}))

FetchFileCommits(c, reply) ==
    /\ ~quit
    /\ c \in Pending("loadFileCommits")
    /\ UNCHANGED pressed
    /\ Apply(UpdateFileCommitsLoaded(m, GetFileCommits(c.file, reply)), SetToBag({c}))

FetchReflog(c, reply) ==
    /\ ~quit
    /\ c \in Pending("loadReflog")
    /\ UNCHANGED pressed
    /\ Apply(UpdateReflogLoaded(m, GetFileReflog(c.file, reply)), SetToBag({c}))

FetchPickaxe(c, reply) ==
    /\ ~quit
    /\ c \in Pending("loadPickaxeCommits")
    /\ UNCHANGED pressed
    /\ Apply(UpdateSourceCommitsLoaded(m, GetPickaxeCommits(c.file, c.term, reply),
                                       reply = "fail", PickaxeErrMsg(c, reply = "fail")),
             SetToBag({c}))

FetchContent(c, reply) ==
    /\ ~quit
    /\ c \in Pending("loadContentForCommit")
    /\ UNCHANGED pressed
    /\ Apply(UpdateDiffLoaded(m, loadContentForCommit(c.file, c.hash, c.dm, reply)), SetToBag({c}))

FetchEmptyContent(c) ==
    /\ ~quit
    /\ c \in Pending("emptyContent")
    /\ UNCHANGED pressed
    /\ Apply(UpdateDiffLoaded(m, NoContent), SetToBag({c}))

InitialDataLoaded == \E c \in BagToSet(inflight), r1 \in Replies, r2 \in Replies : FetchInitialData(c, r1, r2)
FilesLoaded == \E c \in BagToSet(inflight), reply \in Replies : FetchFiles(c, reply)
DiffLoaded == \E c \in BagToSet(inflight), reply \in ContentReplies : FetchDiff(c, reply)
FileCommitsLoaded == \E c \in BagToSet(inflight), reply \in Replies : FetchFileCommits(c, reply)
ReflogLoaded == \E c \in BagToSet(inflight), reply \in Replies : FetchReflog(c, reply)
SourceCommitsLoaded == \E c \in BagToSet(inflight), reply \in Replies : FetchPickaxe(c, reply)
ContentLoaded == \E c \in BagToSet(inflight), reply \in ContentReplies : FetchContent(c, reply)
EmptyContentLoaded == \E c \in BagToSet(inflight) : FetchEmptyContent(c)

Init ==
    /\ m = NewModel
    /\ inflight = SetToBag({loadInitialData})
    /\ quit = FALSE
    /\ pressed = 0
    /\ dv = NewDiffView
    /\ trail = <<>>
    /\ hl = NoHighlight

Next ==
    \/ KeyPress
    \/ InitialDataLoaded
    \/ FilesLoaded
    \/ DiffLoaded
    \/ FileCommitsLoaded
    \/ ReflogLoaded
    \/ SourceCommitsLoaded
    \/ ContentLoaded
    \/ EmptyContentLoaded

Spec == Init /\ [][Next]_vars

\* the runtime runs every Cmd in a goroutine of its own and hands its message
\* to the event loop, which takes the messages one at a time: a load that is
\* out is delivered at some time, as long as the loop runs
Deliver ==
    \/ InitialDataLoaded
    \/ FilesLoaded
    \/ DiffLoaded
    \/ FileCommitsLoaded
    \/ ReflogLoaded
    \/ SourceCommitsLoaded
    \/ ContentLoaded
    \/ EmptyContentLoaded

\* a session of at most MaxLiveKeys keys that have an effect
KeyPressLive == pressed < MaxLiveKeys /\ KeyPress

NextLive ==
    \/ KeyPressLive
    \/ Deliver

SpecLive == Init /\ [][NextLive]_vars /\ WF_vars(Deliver)

\* ------------------------------------------------- annotating diff text
\* The lines the payloads are made of: metadata, two well-formed hunk headers
\* (one coloured, one without counts), a line that starts with @@ and is no
\* hunk header, a deletion, a deletion in colour, two additions, a context
\* line and the empty line.
Line ==
    [Meta |-> <<"d", "i", "f", "f">>,
     Hunk |-> <<"@", "@", " ", "-", "1", ",", "2", " ", "+", "1", ",", "3", " ", "@", "@">>,
     ColouredHunk |-> <<SGR("36"), "@", "@", " ", "-", "5", " ", "+", "7", " ", "@", "@",
                        SGR("0"), " ", "f">>,
     BadHunk |-> <<"@", "@", " ", "x">>,
     Del |-> <<"-", "f", "o", "o">>,
     ColouredDel |-> <<SGR("1;31"), "-", "f", "o", "o", SGR("0")>>,
     Add |-> <<"+", "f", "o", "g">>,
     SameAdd |-> <<"+", "f", "o", "o">>,
     Context |-> <<" ", "f", "o", "o">>,
     Empty |-> <<>>]

Lines == {Line[k] : k \in DOMAIN Line}

\* the payloads a first SetContent may bring: 1 to MaxLines lines
Contents == UNION {[1..n -> Lines] : n \in 1..MaxLines}

\* the payloads that replace an earlier payload
ReloadContents ==
    {<<Line.Empty>>, <<Line.Hunk>>, <<Line.Context>>, <<Line.Meta, Line.ColouredHunk, Line.Del>>,
     <<Line.Hunk, Line.Del, Line.ColouredDel, Line.Add, Line.SameAdd, Line.Add, Line.Context>>,
     <<Line.Meta, Line.ColouredHunk, Line.Context, Line.Del, Line.Add, Line.Empty, Line.Del,
       Line.BadHunk, Line.Add, Line.Hunk, Line.Add>>}

\* Model.Update (diffLoadedMsg) -> DiffView.SetContent
SetContentCall ==
    /\ \E content \in (IF dv.rendered = <<>> THEN Contents ELSE ReloadContents) :
           dv' = SetContentText(dv, content)
    /\ UNCHANGED <<m, inflight, quit, pressed, hl, trail>>

\* Model.Update (key z) -> DiffView.ToggleDescription
ToggleDescriptionCall ==
    /\ dv' = ToggleDescription(dv)
    /\ UNCHANGED <<m, inflight, quit, pressed, hl, trail>>

InitAnnotate ==
    /\ m = NewModel
    /\ inflight = EmptyBag
    /\ quit = FALSE
    /\ pressed = 0
    /\ dv = NewDiffView
    /\ trail = <<>>
    /\ hl = NoHighlight

NextAnnotate ==
    \/ SetContentCall
    \/ ToggleDescriptionCall

SpecAnnotate == InitAnnotate /\ [][NextAnnotate]_vars

\* ------------------------------------------------- highlighting one pair
\* the texts of a paired deletion and addition, without their sign
Texts == UNION {[1..n -> {"f", "o", "g"}] : n \in 0..MaxText}

\* flushBlock -> highlightDiff
HighlightDiffCall ==
    /\ ~hl.called
    /\ hl' = [hl EXCEPT !.called = TRUE,
                        !.out = highlightDiff(hl.thisText, hl.otherText, hl.baseColor)]
    /\ UNCHANGED <<m, inflight, quit, pressed, dv, trail>>

InitHighlight ==
    /\ m = NewModel
    /\ inflight = EmptyBag
    /\ quit = FALSE
    /\ pressed = 0
    /\ dv = NewDiffView
    /\ trail = <<>>
    /\ hl \in {[thisText |-> a, otherText |-> b, baseColor |-> c, called |-> FALSE, out |-> <<>>] :
                  a \in Texts, b \in Texts, c \in {"31", "32"}}

NextHighlight == HighlightDiffCall

SpecHighlight == InitHighlight /\ [][NextHighlight]_vars

\* ------------------------------------------------ jumping between hunks
\* trail holds the last two keys DiffView.Update handled, each with the
\* viewport offset it found.
Remember(key) ==
    trail' = (IF trail = <<>> THEN <<>> ELSE <<trail[Len(trail)]>>)
             \o <<[key |-> key, from |-> dv.YOffset]>>

\* DiffView.Update (key n)
JumpNextCall ==
    /\ dv' = jumpToNextHunk(dv)
    /\ Remember("n")
    /\ UNCHANGED <<m, inflight, quit, pressed, hl>>

\* DiffView.Update (key N)
JumpPrevCall ==
    /\ dv' = jumpToPrevHunk(dv)
    /\ Remember("N")
    /\ UNCHANGED <<m, inflight, quit, pressed, hl>>

\* DiffView.Update (keys d, u and the keys the viewport scrolls on): the
\* viewport moves to some offset it allows
ScrollCall ==
    /\ \E n \in 0..Len(dv.rendered) :
          /\ SetYOffset(dv, n).YOffset = n
          /\ n # dv.YOffset
          /\ dv' = SetYOffset(dv, n)
    /\ Remember("scroll")
    /\ UNCHANGED <<m, inflight, quit, pressed, hl>>

\* the diff views of 1 to MaxHeight rows that were given a text of hunk
\* headers and context lines, with the description hidden or shown
JumpViews ==
    UNION {{SetContentText([NewDiffView EXCEPT !.Height = h, !.showDescription = z], content) :
               content \in [1..n -> {Line.Hunk, Line.Context}]} :
           h \in 1..MaxHeight, n \in 1..MaxLines + 1, z \in BOOLEAN}

InitJump ==
    /\ m = NewModel
    /\ inflight = EmptyBag
    /\ quit = FALSE
    /\ pressed = 0
    /\ hl = NoHighlight
    /\ trail = <<>>
    /\ dv \in JumpViews

NextJump ==
    \/ JumpNextCall
    \/ JumpPrevCall
    \/ ScrollCall

SpecJump == InitJump /\ [][NextJump]_vars

\* ----------------------------------------------------------------- claims
\* the list and the index of the source the cursor is on
ActiveList(s) ==
    IF ~s.singleFileMode THEN s.commits
    ELSE CASE s.sourceMode = modeReflog -> s.reflogEntries
           [] s.sourceMode = modePickaxe -> s.sourceCommits
           [] OTHER -> s.fileCommits

ActiveIndex(s) ==
    IF ~s.singleFileMode THEN s.commitIndex
    ELSE CASE s.sourceMode = modeReflog -> s.reflogIndex
           [] s.sourceMode = modePickaxe -> s.sourceIndex
           [] OTHER -> s.fileCommitIndex

\* the fields of the Cursor
Cursor(s) ==
    <<s.sourceMode, s.commitIndex, s.fileCommitIndex, s.reflogIndex, s.sourceIndex,
      s.displayMode, s.singleFileMode, s.pickaxeTerm, s.currentFile>>

\* what the panels say about the commit shown
Labels(s) == <<s.revision, s.fileInfo, s.sourceIndicator>>

\* the content a fetch for the cursor's present configuration returns
CurrentContent(s) ==
    IF ~s.singleFileMode
    THEN IF s.commitIndex < Len(s.commits)
         THEN Fetched(s.currentFile, At(s.commits, s.commitIndex), displayDiff)
         ELSE NoContent
    ELSE IF currentCommitForSource(s).ok
         THEN Fetched(s.currentFile, currentCommitForSource(s).hash, s.displayMode)
         ELSE NoContent

\* C1: a pickaxe result delivered after the user switched to the reflog source
\* is discarded: the source kind stays reflog and the term, the cached lists,
\* the panel labels and the content are as before the delivery.
C1_StaleSearchResultDiscarded ==
    [][\A c \in BagToSet(inflight), reply \in Replies :
          (FetchPickaxe(c, reply) /\ m.sourceMode = modeReflog)
          => /\ m'.sourceMode = modeReflog
             /\ m'.pickaxeTerm = m.pickaxeTerm
             /\ m'.sourceCommits = m.sourceCommits
             /\ m'.reflogEntries = m.reflogEntries
             /\ m'.fileCommits = m.fileCommits
             /\ Labels(m') = Labels(m)
             /\ m'.rawContent = m.rawContent]_vars

\* C2: once no load is in flight, fetched content in the diff pane is the
\* content fetched for the cursor's present configuration (path, commit at the
\* active pair, display mode), whatever the delivery order was.
C2_ShownContentIsCurrent ==
    (inflight = EmptyBag /\ m.rawContent.kind = "fetched") => m.rawContent = CurrentContent(m)

\* C3: the index of the active source is within the bounds of the loaded list
\* of that source (stated for a list that holds commits).
C3_IndexInBounds ==
    Len(ActiveList(m)) > 0 => (0 <= ActiveIndex(m) /\ ActiveIndex(m) < Len(ActiveList(m)))

\* C4: right after a loaded list is installed (file-scoped, reflog, non-empty
\* pickaxe) the index into that list is 0.
C4_IndexZeroOnInstall ==
    [][\A c \in BagToSet(inflight), reply \in Replies :
          /\ FetchFileCommits(c, reply) => m'.fileCommitIndex = 0
          /\ FetchReflog(c, reply) => m'.reflogIndex = 0
          /\ (FetchPickaxe(c, reply) /\ reply = "ok") => m'.sourceIndex = 0]_vars

\* the sidebar label and the header name the commit at the active pair, and
\* name no commit when the active list has none at the index
LabelsSynced(s) ==
    IF ActiveIndex(s) < Len(ActiveList(s))
    THEN /\ s.revision.hash = At(ActiveList(s), ActiveIndex(s))
         /\ s.fileInfo.hash = At(ActiveList(s), ActiveIndex(s))
         /\ s.fileInfo.index = ActiveIndex(s)
         /\ s.fileInfo.count = Len(ActiveList(s))
    ELSE s.revision.hash = NoHash /\ s.fileInfo.hash = NoHash

\* C5: after every operation and applied load result (no load left in flight)
\* the sidebar label and the header refer to the commit at the active
\* (sourceKind, index) pair, also when the active source's list is empty.
C5_LabelsFollowActivePair ==
    inflight = EmptyBag => LabelsSynced(m)

\* a StepOlder / StepNewer input: the key reaches its handler
Stepping(s) == s.textInputMode = "" /\ ~s.filtering

\* C6: StepOlder adds exactly 1 to the active index below len-1, StepNewer
\* subtracts exactly 1 above 0, both then dispatch one load; at a boundary
\* nothing changes and nothing is dispatched.  All four sources.
C6_StepClamped ==
    [][/\ (Key("[", 0, "") /\ Stepping(m))
          => IF ActiveIndex(m) < Len(ActiveList(m)) - 1
             THEN /\ ActiveIndex(m') = ActiveIndex(m) + 1
                  /\ BagCardinality(inflight') = BagCardinality(inflight) + 1
             ELSE m' = m /\ inflight' = inflight
       /\ (Key("]", 0, "") /\ Stepping(m))
          => IF ActiveIndex(m) > 0
             THEN /\ ActiveIndex(m') = ActiveIndex(m) - 1
                  /\ BagCardinality(inflight') = BagCardinality(inflight) + 1
             ELSE m' = m /\ inflight' = inflight]_vars

\* C6 witness: three commits, the cursor stepped to the oldest one
C6_Witness ==
    /\ m.singleFileMode /\ m.sourceMode = modeCommits
    /\ Len(m.fileCommits) = 3 /\ m.fileCommitIndex = 2

\* C7: a search that lists nothing falls back to the default source with an
\* empty term and shows "No commits found"; a failed search falls back the
\* same way and shows the error; neither replaces the cached pickaxe list.
C7_SearchFallback ==
    [][\A c \in BagToSet(inflight), reply \in Replies :
          (FetchPickaxe(c, reply) /\ reply # "ok")
          => /\ m'.sourceMode = modeCommits
             /\ m'.pickaxeTerm = ""
             /\ m'.rawContent = (IF reply = "fail" THEN ErrorText ELSE NoCommitsFound)
             /\ m'.rawContent # (IF reply = "fail" THEN NoCommitsFound ELSE ErrorText)
             /\ m'.sourceCommits = m.sourceCommits]_vars

\* C7 witness: the no-results message after the fallback
C7_Witness ==
    /\ m.singleFileMode /\ m.sourceMode = modeCommits /\ m.pickaxeTerm = ""
    /\ m.rawContent = NoCommitsFound

\* C8: no fetch failure is fatal: the panels keep being presented.
C8_PanelsPresented == View(m) = "panels"

\* C9: a failed list fetch leads to a state that differs from the state the
\* same fetch reaches when it lists nothing.
C9_FailureDiffersFromEmpty ==
    [][\A c \in BagToSet(inflight) :
          /\ ~(FetchFileCommits(c, "fail") /\ FetchFileCommits(c, "none"))
          /\ ~(FetchReflog(c, "fail") /\ FetchReflog(c, "none"))
          /\ ~(FetchFiles(c, "fail") /\ FetchFiles(c, "none"))
          /\ ~(FetchInitialData(c, "fail", "ok") /\ FetchInitialData(c, "none", "ok"))]_vars

Dispatched == inflight' (-) inflight

\* the cursor fields other than the selected path
CursorButPath(s) ==
    <<s.sourceMode, s.commitIndex, s.fileCommitIndex, s.reflogIndex, s.sourceIndex,
      s.displayMode, s.singleFileMode, s.pickaxeTerm>>

EnterKeys == {" ", "2"}

ExitStep ==
    /\ m.singleFileMode /\ m.textInputMode = ""
    /\ \/ Key("1", 0, "")
       \/ Key("q", 0, "")
       \/ (m.sourceMode = modeCommits /\ Key("esc", 0, ""))

\* C12: leaving single-file mode, from any source, display mode and term, gives
\* singleFileMode = false, displayMode = diff, sourceMode = sourceCommits, an
\* empty term and focus on the file list, keeps commitIndex and currentFile,
\* and dispatches one reload of the diff of currentFile at commitIndex.
C12_ExitSingleFileMode ==
    [][ExitStep =>
          /\ ~m'.singleFileMode
          /\ m'.displayMode = displayDiff
          /\ m'.sourceMode = modeCommits
          /\ m'.pickaxeTerm = ""
          /\ m'.focus = focusSidebar /\ m'.sidebarFocused /\ ~m'.diffFocused
          /\ m'.commitIndex = m.commitIndex
          /\ m'.currentFile = m.currentFile
          /\ Dispatched = SetToBag({loadDiffForCurrentFile(m)})
          /\ (m.currentFile # "" /\ m.commitIndex < Len(m.commits))
             => Dispatched = SetToBag({Cmd("loadDiffForCurrentFile", m.currentFile,
                                           At(m.commits, m.commitIndex), 0, "")})]_vars

\* back in browsing mode after the reflog of a file was looked at in another
\* display mode: the diff is being reloaded
C12_Witness ==
    /\ ~m.singleFileMode /\ m.displayMode = displayDiff /\ m.focus = focusSidebar
    /\ m.reflogEntries # <<>>
    /\ m.rawContent.kind = "fetched" /\ m.rawContent.dm # displayDiff
    /\ Pending("loadDiffForCurrentFile") # {}

\* a key step that turns the active non-default source off: r under reflog,
\* s under pickaxe, esc under either
DeactivateStep ==
    /\ m.singleFileMode /\ m.textInputMode = ""
    /\ \/ (m.sourceMode = modeReflog /\ Key("r", 0, ""))
       \/ (m.sourceMode = modePickaxe /\ Key("s", 0, ""))
       \/ (m.sourceMode # modeCommits /\ Key("esc", 0, ""))

\* C13: turning the active reflog or pickaxe source off (r, s or esc) returns
\* sourceMode to sourceCommits, clears the term, keeps displayMode and
\* singleFileMode, and dispatches one content reload for the commit at
\* fileCommitIndex of the file's commit list.
C13_DeactivateSource ==
    [][DeactivateStep =>
          /\ m'.sourceMode = modeCommits
          /\ m'.pickaxeTerm = ""
          /\ m'.displayMode = m.displayMode
          /\ m'.singleFileMode
          /\ Dispatched = SetToBag({
                 IF m.fileCommitIndex < Len(m.fileCommits) /\ m.currentFile # ""
                 THEN Cmd("loadContentForCommit", m.currentFile,
                          At(m.fileCommits, m.fileCommitIndex), m.displayMode, "")
                 ELSE Cmd("emptyContent", "", NoHash, 0, "")})]_vars

\* C14: the search term is non-empty exactly when sourceMode = sourcePickaxe
\* (every way out of the pickaxe source leaves the term empty, and pickaxe is
\* never active with an empty term).
C14_TermIffPickaxe ==
    (m.pickaxeTerm # "") <=> (m.sourceMode = modePickaxe)

\* the keys that activate, deactivate or step within a source
SourceKeys == {"r", "s", "[", "]", "enter"}

\* C15: c takes effect only in single-file mode, where it changes displayMode
\* (and the tab the diff pane shows for it) and nothing else, and dispatches one
\* content reload for the same commit of the same source in the new mode; in
\* browsing mode it changes no display mode and dispatches no content load.
\* Activating, deactivating or stepping within a source keeps displayMode.
C15_DisplayModeOrthogonal ==
    [][ /\ \A pick \in 0..MaxLen :
            (Key("c", pick, "") /\ m.textInputMode = "") =>
              IF m.singleFileMode
              THEN /\ m'.displayMode # m.displayMode
                   /\ m' = [m EXCEPT !.displayMode = m'.displayMode,
                                     !.viewMode = m'.displayMode, !.inFileMode = TRUE]
                   /\ Dispatched = SetToBag({
                          IF currentCommitForSource(m).ok /\ m.currentFile # ""
                          THEN Cmd("loadContentForCommit", m.currentFile,
                                   currentCommitForSource(m).hash, m'.displayMode, "")
                          ELSE Cmd("emptyContent", "", NoHash, 0, "")})
              ELSE /\ m'.displayMode = m.displayMode
                   /\ ~m.filtering => (m' = m /\ Dispatched = EmptyBag)
                   /\ \A c \in BagToSet(Dispatched) : c.name = "loadDiffForCurrentFile"
        /\ \A key \in SourceKeys, value \in Terms \cup {""} :
            (Key(key, 0, value) /\ m.singleFileMode) => m'.displayMode = m.displayMode
        /\ (Key("esc", 0, "") /\ m.singleFileMode
                /\ (m.sourceMode # modeCommits \/ m.textInputMode # ""))
            => m'.displayMode = m.displayMode]_vars

\* the reflog is shown with context: c was pressed under a non-default source
\* and the content is being reloaded in the new mode
C15_Witness ==
    /\ m.singleFileMode /\ m.sourceMode = modeReflog /\ m.reflogEntries # <<>>
    /\ m.displayMode = displayContext
    /\ \E c \in Pending("loadContentForCommit") :
           c.dm = displayContext /\ c.hash = At(m.reflogEntries, m.reflogIndex)

\* C16: submitting the search input with an empty value never activates the
\* pickaxe source: the step dispatches nothing, leaves sourceMode (which is not
\* sourcePickaxe), the term and every index as they were, and closes the input.
C16_EmptyTermRejected ==
    [][(Key("enter", 0, "") /\ m.textInputMode # "") =>
          /\ m'.sourceMode = m.sourceMode
          /\ m'.sourceMode # modePickaxe
          /\ Cursor(m') = Cursor(m)
          /\ Dispatched = EmptyBag
          /\ m' = [m EXCEPT !.textInputMode = ""]]_vars

\* the search input is open over the reflog source and Enter with an empty
\* value can be pressed
C16_Witness ==
    /\ m.textInputMode = "pickaxe" /\ m.sourceMode = modeReflog /\ m.reflogIndex > 0
    /\ ~quit /\ pressed < MaxKeys /\ BagCardinality(inflight) < MaxInFlight
    /\ UpdateKey(m, "enter", 0, "").m.sourceMode = modeReflog
    /\ UpdateKey(m, "enter", 0, "").m.textInputMode = ""

\* a browsing-mode key step after which another file is under the list cursor
SelectFile(key, pick) ==
    /\ Key(key, pick, "")
    /\ ~m.singleFileMode
    /\ SelectedItem(m') # "" /\ SelectedItem(m') # SelectedItem(m)

\* the delivery of the diff that was dispatched for the path now selected
SelectedDiffLoaded(c, reply) ==
    /\ FetchDiff(c, reply)
    /\ ~m.singleFileMode /\ c.file # "" /\ c.file = m.currentFile

\* C17: selecting another file in browsing mode sets currentFile to it and
\* dispatches one diff load for that path at commits[commitIndex]; when that
\* load is delivered the diff pane's header names the same path.
C17_SelectFile ==
    [][ /\ \A key \in Keys, pick \in 0..MaxLen :
            SelectFile(key, pick) =>
              /\ m'.currentFile = SelectedItem(m')
              /\ m'.commitIndex = m.commitIndex
              /\ m.commitIndex < Len(m.commits)
              /\ Dispatched = SetToBag({Cmd("loadDiffForCurrentFile", SelectedItem(m'),
                                            At(m.commits, m.commitIndex), 0, "")})
        /\ \A c \in BagToSet(inflight), reply \in ContentReplies :
            SelectedDiffLoaded(c, reply) => m'.fileInfo.path = m'.currentFile]_vars

\* C18: in every reachable state the sidebar's revision label and the diff
\* pane's header name the same commit hash, or both denote the working copy
\* (the label says "working copy" and the header carries no commit position).
C18_PanelsNameSameCommit ==
    /\ m.revision.hash = m.fileInfo.hash
    /\ m.revision.hash = NoHash =>
          /\ m.revision.prefix = "working copy"
          /\ m.fileInfo.index = -1 /\ m.fileInfo.count = 0

\* both panels were moved to the second reflog entry
C18_Witness ==
    /\ m.sourceMode = modeReflog /\ m.reflogIndex = 1 /\ Len(m.reflogEntries) > 1
    /\ m.revision = Revision("REFLOG", "", At(m.reflogEntries, 1))
    /\ m.fileInfo.hash = At(m.reflogEntries, 1)

\* C19: for every payload and both values of the description flag, the hunk
\* positions the annotator returns are exactly the indices of the hunk-header
\* lines of the rendered text (the lines whose text, without escape sequences,
\* is a hunk header), in strictly ascending order, also when deletions and
\* additions were still buffered when a hunk header was read.
C19_HunkOffsetsAreHeaderIndices ==
    LET HeaderIndices ==
            {i - 1 : i \in {k \in 1..Len(dv.rendered) :
                               hunkHeaderRegex(stripANSI(dv.rendered[k].text)).ok}}
    IN /\ {dv.hunkPositions[k] : k \in 1..Len(dv.hunkPositions)} = HeaderIndices
       /\ \A k \in 1..(Len(dv.hunkPositions) - 1) :
             dv.hunkPositions[k] < dv.hunkPositions[k + 1]

\* a second hunk header read while a deletion was buffered, after a metadata
\* line that is stripped
C19_Witness ==
    /\ dv.rawContent = <<Line.Meta, Line.Hunk, Line.Del, Line.ColouredHunk>>
    /\ ~dv.showDescription
    /\ Len(dv.rendered) = 3
    /\ dv.hunkPositions = <<0, 2>>

\* C20: with p the longest common prefix of this text and the other and s the
\* longest common suffix such that p + s does not exceed the shorter length,
\* the reverse-video span covers exactly the positions p .. len(this)-s-1 of
\* this text, and no reverse-video escape is emitted when that range is empty;
\* the text itself is emitted unchanged in the base colour.
C20_IntralineSpan ==
    hl.called =>
      LET a == hl.thisText
          b == hl.otherText
          out == hl.out
          min == IF Len(a) < Len(b) THEN Len(a) ELSE Len(b)
          p == CHOOSE n \in 0..min :
                  /\ \A i \in 1..n : a[i] = b[i]
                  /\ n = min \/ a[n + 1] # b[n + 1]
          s == CHOOSE n \in 0..(min - p) :
                  /\ \A i \in 0..(n - 1) : a[Len(a) - i] = b[Len(b) - i]
                  /\ n = min - p \/ a[Len(a) - n] # b[Len(b) - n]
          \* 0-based positions of the characters between a reverse-video
          \* escape and the escape that ends it
          ReversedPositions ==
              {Len(stripANSI(SubSeq(out, 1, j))) - 1 :
                  j \in {k \in 1..Len(out) :
                           /\ ~ansiRegex(out[k])
                           /\ \E x \in 1..(k - 1) :
                                 /\ out[x] = SGR("7")
                                 /\ \A y \in (x + 1)..(k - 1) : out[y] # SGR("27")}}
      IN /\ stripANSI(out) = a
         /\ out[1] = SGR(hl.baseColor) /\ out[Len(out)] = SGR("0")
         /\ ReversedPositions = p..(Len(a) - s - 1)
         /\ p >= Len(a) - s => \A j \in 1..Len(out) : out[j] \notin {SGR("7"), SGR("27")}
         /\ Cardinality({j \in 1..Len(out) : out[j] = SGR("7")}) <= 1

\* "foo" against "fog": only the last character is highlighted
C20_Witness ==
    /\ hl.called
    /\ hl.thisText = <<"f", "o", "o">> /\ hl.otherText = <<"f", "o", "g">>
    /\ hl.out = <<SGR(hl.baseColor), "f", "o", SGR("7"), "o", SGR("27"), SGR("0")>>

\* the text updateContent hands to addLineNumbers
Shown ==
    IF ~dv.showDescription THEN stripDiffHeader(dv.rawContent) ELSE dv.rawContent

\* the class of line i of a text, as addLineNumbers tells the classes apart
Class(content, i) ==
    LET s == stripANSI(content[i])
    IN CASE hunkHeaderRegex(s).ok -> "hunk"
         [] \A j \in 1..i : ~hunkHeaderRegex(stripANSI(content[j])).ok -> "meta"
         [] s = <<>> -> "blank"
         [] s[1] = "-" -> "del"
         [] s[1] = "+" -> "add"
         [] OTHER -> "context"

\* the line that line i of a text is paired with, 0 when it is unpaired: a
\* change block is a run of deletions followed by a run of additions, and the
\* k-th deletion of the block goes with its k-th addition
Partner(content, i) ==
    LET Run(a, b, c) == \A j \in a..b : Class(content, j) = c
        n == Len(content)
    IN IF Class(content, i) = "del"
       THEN LET a == CHOOSE x \in 1..i : Run(x, i, "del") /\ \A y \in 1..(x - 1) : ~Run(y, i, "del")
                e == CHOOSE x \in i..n : Run(i, x, "del") /\ \A y \in (x + 1)..n : ~Run(i, y, "del")
                k == i - a + 1
            IN IF e + k <= n /\ Run(e + 1, e + k, "add") THEN e + k ELSE 0
       ELSE LET a == CHOOSE x \in 1..i : Run(x, i, "add") /\ \A y \in 1..(x - 1) : ~Run(y, i, "add")
                k == i - a + 1
            IN IF a - 1 >= 1 /\ Class(content, a - 1) = "del"
               THEN LET b == CHOOSE x \in 1..(a - 1) :
                                Run(x, a - 1, "del") /\ \A y \in 1..(x - 1) : ~Run(y, a - 1, "del")
                    IN IF b + k - 1 <= a - 1 THEN b + k - 1 ELSE 0
               ELSE 0

\* C21: the rendered text has one line per line of the shown text, in the
\* same order; the k-th deletion of a change block is highlighted against the
\* k-th addition of the same block and the other way round; a deletion or an
\* addition without such a partner is emitted in its uniform colour without
\* intraline highlight.  A block is a run of deletions followed by a run of
\* additions, so a deletion after additions, a context line, a blank line or
\* a hunk header separates blocks and no line is paired across them.
C21_PairingOnFlush ==
    dv.rendered # <<>> =>
      /\ Len(dv.rendered) = Len(Shown)
      /\ \A i \in 1..Len(Shown) :
            Class(Shown, i) \in {"del", "add"} =>
              LET s == stripANSI(Shown[i])
                  p == Partner(Shown, i)
                  col == IF Class(Shown, i) = "del" THEN "31" ELSE "32"
              IN dv.rendered[i].text =
                    IF p # 0
                    THEN <<SGR(col), s[1], SGR("0")>>
                         \o highlightDiff(Tail(s), Tail(stripANSI(Shown[p])), col)
                    ELSE <<SGR(col)>> \o s \o <<SGR("0")>>

\* two deletions and three additions in one block: the second deletion is
\* paired with the second addition, the third addition is unpaired
C21_Witness ==
    /\ dv.rawContent = <<Line.Hunk, Line.Del, Line.ColouredDel, Line.Add, Line.SameAdd,
                          Line.Add, Line.Context>>
    /\ Partner(Shown, 2) = 4 /\ Partner(Shown, 3) = 5 /\ Partner(Shown, 6) = 0
    /\ SGR("7") \in {dv.rendered[2].text[j] : j \in 1..Len(dv.rendered[2].text)}
    /\ dv.rendered[6].text = <<SGR("32"), "+", "f", "o", "g", SGR("0")>>

\* C22: in a hunk whose header declares old start a and new start b, a line
\* preceded in the hunk by c context or blank lines, d deletions and e
\* additions carries (a+c+d, b+c+e) if it is a context or blank line, only
\* the old number a+c+d if it is a deletion and only the new number b+c+e if
\* it is an addition; every hunk header starts the count again from its own
\* numbers; hunk headers and the lines before the first one carry no number.
\* The count is over hunks made of context, blank, deletion and addition
\* lines (no line of the hunk up to the line starts with @@).
C22_LineNumbering ==
    dv.rendered # <<>> /\ Len(dv.rendered) = Len(Shown) =>
      \A i \in 1..Len(Shown) :
        IF Class(Shown, i) \in {"hunk", "meta"}
        THEN dv.rendered[i].old = Blank /\ dv.rendered[i].new = Blank
        ELSE LET h == CHOOSE x \in 1..i :
                         /\ Class(Shown, x) = "hunk"
                         /\ \A y \in (x + 1)..i : Class(Shown, y) # "hunk"
                 \* the start numbers the headers of the payloads declare
                 hdr == IF Shown[h] = Line.ColouredHunk THEN [old |-> 5, new |-> 7]
                                                        ELSE [old |-> 1, new |-> 1]
                 Count(S) == Cardinality({j \in (h + 1)..(i - 1) : Class(Shown, j) \in S})
                 c == Count({"context", "blank"})
                 d == Count({"del"})
                 e == Count({"add"})
                 AtAt(j) == LET s == stripANSI(Shown[j])
                            IN Len(s) >= 2 /\ s[1] = "@" /\ s[2] = "@"
             IN (\A j \in (h + 1)..i : ~AtAt(j)) =>
                  CASE Class(Shown, i) = "del" ->
                         dv.rendered[i].old = hdr.old + c + d /\ dv.rendered[i].new = Blank
                    [] Class(Shown, i) = "add" ->
                         dv.rendered[i].old = Blank /\ dv.rendered[i].new = hdr.new + c + e
                    [] OTHER ->
                         dv.rendered[i].old = hdr.old + c + d /\ dv.rendered[i].new = hdr.new + c + e

\* a hunk starting at (5, 7): after one context line, one deletion and one
\* addition the blank line carries (7, 9); the next header starts again at 1
C22_Witness ==
    /\ dv.rawContent = <<Line.Meta, Line.ColouredHunk, Line.Context, Line.Del, Line.Add,
                          Line.Empty, Line.Del, Line.BadHunk, Line.Add, Line.Hunk, Line.Add>>
    /\ dv.showDescription
    /\ dv.rendered[1].old = Blank /\ dv.rendered[2].new = Blank
    /\ dv.rendered[4].old = 6 /\ dv.rendered[5].new = 8
    /\ dv.rendered[6].old = 7 /\ dv.rendered[6].new = 9
    /\ dv.rendered[11].old = Blank /\ dv.rendered[11].new = 1

\* C23: a line that begins with @@ and is no hunk header is emitted with
\* blank number fields, is not recorded among the hunk positions and does not
\* advance the line counters (the line after it carries the numbers it would
\* carry without it), before a hunk as well as inside one; every line of the
\* shown text is emitted, buffered deletions and additions at the end of the
\* input included.
C23_MalformedHeaderBlank ==
    dv.rendered # <<>> =>
      /\ Len(dv.rendered) = Len(Shown)
      /\ \A i \in 1..Len(Shown) :
            LET s == stripANSI(Shown[i])
            IN (Len(s) >= 2 /\ s[1] = "@" /\ s[2] = "@" /\ ~hunkHeaderRegex(s).ok) =>
                 /\ dv.rendered[i].old = Blank /\ dv.rendered[i].new = Blank
                 /\ \A k \in 1..Len(dv.hunkPositions) : dv.hunkPositions[k] # i - 1
                 /\ (i < Len(Shown) /\ i > 1 /\ Class(Shown, i - 1) = "hunk"
                       /\ Class(Shown, i + 1) = "context") =>
                        LET hdr == IF Shown[i - 1] = Line.ColouredHunk
                                   THEN [old |-> 5, new |-> 7] ELSE [old |-> 1, new |-> 1]
                        IN dv.rendered[i + 1].old = hdr.old /\ dv.rendered[i + 1].new = hdr.new

\* C24: the escape sequences of the input are used for classification only
\* and are kept on emission: for every line of the shown text, whatever its
\* class, every escape sequence of the line is in the emitted line, and a
\* line that is no deletion and no addition is emitted as it came.
C24_EscapesPreserved ==
    dv.rendered # <<>> /\ Len(dv.rendered) = Len(Shown) =>
      \A i \in 1..Len(Shown) :
        LET text == dv.rendered[i].text
        IN /\ \A j \in 1..Len(Shown[i]) :
                ansiRegex(Shown[i][j]) => \E k \in 1..Len(text) : text[k] = Shown[i][j]
           /\ Class(Shown, i) \notin {"del", "add"} => text = Shown[i]

\* C25: with the description hidden, the lines before the first hunk-header
\* line are discarded and nothing else changes: the rendered lines are those
\* rendered with the description shown, from the first hunk header on, and the
\* hunk positions are those of the shown description less the number of
\* discarded lines (header stripping and annotation agree on which line is
\* the first hunk header).
C25_HiddenDescription ==
    LET raw == dv.rawContent
        headers == {i \in 1..Len(raw) : hunkHeaderRegex(stripANSI(raw[i])).ok}
        full == updateContent([dv EXCEPT !.showDescription = TRUE])
    IN (dv.rendered # <<>> /\ ~dv.showDescription /\ headers # {}) =>
         LET first == CHOOSE i \in headers : \A j \in headers : i <= j
         IN /\ dv.rendered = SubSeq(full.rendered, first, Len(full.rendered))
            /\ dv.hunkPositions =
                  [k \in 1..Len(full.hunkPositions) |-> full.hunkPositions[k] - (first - 1)]

\* C26: key n moves the view to the smallest hunk position strictly greater
\* than the offset it found, key N to the largest one strictly smaller; when
\* there is no such position (the list may be empty) the offset is unchanged.
C26_HunkNavigation ==
    [][ \A key \in {"n", "N"} :
          (trail' # trail /\ trail'[Len(trail')].key = key) =>
             LET hits == {dv.hunkPositions[i] : i \in 1..Len(dv.hunkPositions)}
                 cand == IF key = "n" THEN {x \in hits : x > dv.YOffset}
                                      ELSE {x \in hits : x < dv.YOffset}
             IN IF cand = {}
                THEN dv'.YOffset = dv.YOffset
                ELSE dv'.YOffset = CHOOSE x \in cand :
                                      \A y \in cand : IF key = "n" THEN x <= y ELSE x >= y
      ]_vars

\* C27: from a hunk position that has a successor, n followed by N brings the
\* view back to that position; from one that has a predecessor, N followed
\* by n does.
C27_InverseConsistent ==
    (Len(trail) = 2 /\ {trail[1].key, trail[2].key} = {"n", "N"}) =>
       LET hits == {dv.hunkPositions[i] : i \in 1..Len(dv.hunkPositions)}
           o == trail[1].from
       IN (/\ o \in hits
           /\ \E x \in hits : IF trail[1].key = "n" THEN x > o ELSE x < o)
          => dv.YOffset = o

\* C28: the rendered text and the hunk positions depend on the raw text and
\* the description flag only: whatever was annotated before, they are what a
\* new diff view produces from the same text and the same flag.
C28_AnnotatorIsPure ==
    dv.rendered # <<>> =>
      LET fresh == SetContentText([NewDiffView EXCEPT !.showDescription = dv.showDescription],
                                  dv.rawContent)
      IN dv.rendered = fresh.rendered /\ dv.hunkPositions = fresh.hunkPositions

\* a text that only arrives after another text was annotated, with the
\* description toggled on in between or afterwards
C28_Witness ==
    /\ dv.rawContent = <<Line.Meta, Line.ColouredHunk, Line.Context, Line.Del, Line.Add,
                          Line.Empty, Line.Del, Line.BadHunk, Line.Add, Line.Hunk, Line.Add>>
    /\ dv.showDescription
    /\ dv.hunkPositions = <<1, 9>>

\* the Model after n presses of esc
RECURSIVE AfterEsc(_, _)
AfterEsc(s, n) == IF n = 0 THEN s ELSE AfterEsc(UpdateKey(s, "esc", 0, "").m, n - 1)

\* esc, pressed in single-file mode with the search input closed, under a
\* source other than the file's commits only deactivates the source, and
\* under the file's commits leaves single-file mode
EscIsTwoStep ==
    [][(m.singleFileMode /\ m.textInputMode = "" /\ Key("esc", 0, "")) =>
          IF m.sourceMode # modeCommits
          THEN m'.singleFileMode /\ m'.sourceMode = modeCommits
          ELSE ~m'.singleFileMode]_vars

\* C29 as stated: esc in single-file mode is two-step, and from any
\* single-file state two presses of esc at most reach browsing mode.
C29_TwoEscFromAnyState ==
    /\ EscIsTwoStep
    /\ [](m.singleFileMode => ~AfterEsc(m, 2).singleFileMode)

\* C29, amended: esc in single-file mode is two-step; from a single-file
\* state with the search input closed two presses of esc at most reach
\* browsing mode, and from any single-file state three do (an open search
\* input takes the first esc and keeps the source).
C29_EscTwoStep ==
    /\ EscIsTwoStep
    /\ [](m.singleFileMode =>
            /\ m.textInputMode = "" => ~AfterEsc(m, 2).singleFileMode
            /\ ~AfterEsc(m, 3).singleFileMode)

\* the reflog source was left by esc and the model is still in single-file
\* mode, on the file's commits
C29_Witness ==
    /\ m.singleFileMode /\ m.sourceMode = modeCommits /\ m.textInputMode = ""
    /\ m.reflogEntries # <<>>
    /\ m.sourceIndicator = Indicator("", "")
    /\ AfterEsc(m, 1).singleFileMode = FALSE

\* the Model after n presses of c
RECURSIVE AfterC(_, _)
AfterC(s, n) == IF n = 0 THEN s ELSE AfterC(UpdateKey(s, "c", 0, "").m, n - 1)

\* C30: c cycles four display modes in the order diff, context, full file,
\* blame and back to diff, so four presses in single-file mode restore the
\* display mode; every press dispatches one content reload, for the new
\* mode; and the content a reload brings was fetched by the call of its mode
\* (the default diff, the diff with 10 lines of context, the file, the blame).
C30_DisplayCycle ==
    /\ [](m.displayMode \in {displayDiff, displayContext, displayFull, displayBlame})
    /\ []((m.singleFileMode /\ m.textInputMode = "") =>
             /\ \A n \in 1..3 : AfterC(m, n).displayMode # m.displayMode
             /\ AfterC(m, 4).displayMode = m.displayMode)
    /\ [][ LET order == <<displayDiff, displayContext, displayFull, displayBlame>>
               call == <<"GetDiffAtCommit", "GetDiffAtCommitWithContext(file, hash, 10)",
                         "GetFileContentAtCommit", "GetBlame">>
               successor == [k \in 1..4 |-> IF k = 4 THEN 1 ELSE k + 1]
           IN /\ (m.singleFileMode /\ m.textInputMode = "" /\ Key("c", 0, "")) =>
                   /\ \A k \in 1..4 :
                         m.displayMode = order[k] => m'.displayMode = order[successor[k]]
                   /\ BagCardinality(Dispatched) = 1
                   /\ \A c \in BagToSet(Dispatched) :
                         /\ c.name \in {"loadContentForCommit", "emptyContent"}
                         /\ c.name = "loadContentForCommit" => c.dm = m'.displayMode
              /\ \A c \in BagToSet(inflight) :
                   FetchContent(c, "ok") =>
                     \E k \in 1..4 :
                       /\ c.dm = order[k]
                       /\ m'.rawContent.kind = "fetched"
                       /\ m'.rawContent.call = call[k] ]_vars

\* the third press of c: the blame of the file is shown, fetched by GetBlame
C30_Witness ==
    /\ m.singleFileMode /\ m.displayMode = displayBlame /\ m.viewMode = displayBlame
    /\ m.rawContent.kind = "fetched" /\ m.rawContent.dm = displayBlame
    /\ m.rawContent.call = "GetBlame"

C32_BrowsingStepLoadsFiles ==
    /\ [][ \A key \in {"]", "[", "esc"} :
             LET target == CASE key = "]" -> m.commitIndex - 1
                             [] key = "[" -> m.commitIndex + 1
                             [] OTHER -> 0
                 success == CASE key = "[" -> m.commitIndex < Len(m.commits) - 1
                              [] OTHER -> m.commitIndex > 0
             IN (~m.singleFileMode /\ ~m.filtering /\ m.textInputMode = "" /\ success
                   /\ Key(key, 0, "")) =>
                  /\ m'.commitIndex = target
                  /\ Dispatched = SetToBag({Cmd("loadFilesForCurrentCommit", "",
                                                m.commits[target + 1], 0, "")}) ]_vars
    /\ [][ \A c \in BagToSet(inflight) : \A reply \in Replies :
             FetchFiles(c, reply) =>
               LET files == IF c.hash # NoHash /\ reply = "ok" THEN FilesIn(c.hash) ELSE <<>>
               IN /\ m'.items = files
                  /\ IF files # <<>>
                     THEN /\ m'.currentFile = files[1]
                          /\ BagCardinality(Dispatched) = 1
                          /\ \A d \in BagToSet(Dispatched) :
                                /\ d.name = "loadDiffForCurrentFile"
                                /\ d.file = files[1]
                                /\ d.hash = m'.commits[m'.commitIndex + 1]
                     ELSE /\ m'.currentFile = ""
                          /\ Dispatched = EmptyBag
                          /\ m'.rawContent = NoFilesChanged ]_vars

\* a step to an older commit has been answered by an empty file set: no file
\* is selected, the pane says so and no load is out
C32_Witness ==
    /\ ~m.singleFileMode /\ m.commitIndex > 0
    /\ m.items = <<>> /\ m.currentFile = ""
    /\ m.rawContent = NoFilesChanged
    /\ inflight = EmptyBag

\* ------------------------------------------------------------------- C33
\* C33: after any sequence of SetContent and ToggleDescription calls (once the
\* viewport has been given a text) the rendered text is the annotation of the latest raw content under the current
\* description flag, the stored hunk positions are exactly the offsets of the
\* hunk-header lines of that rendered text (each one inside it), and two
\* toggles of the description give back the same flag, text and positions.
C33_PayloadSelfConsistent ==
    LET now == addLineNumbers(Shown)
        twice == ToggleDescription(ToggleDescription(dv))
    IN dv.rendered # <<>> =>
         /\ dv.rendered = now.rendered
         /\ dv.hunkPositions = now.hunkPositions
         /\ \A k \in 1..Len(dv.hunkPositions) :
               /\ dv.hunkPositions[k] \in 0..(Len(dv.rendered) - 1)
               /\ hunkHeaderRegex(stripANSI(dv.rendered[dv.hunkPositions[k] + 1].text)).ok
         /\ Len(dv.hunkPositions) =
               Cardinality({i \in 1..Len(dv.rendered) :
                               hunkHeaderRegex(stripANSI(dv.rendered[i].text)).ok})
         /\ twice = dv

\* a payload that replaced an earlier one while the description was shown:
\* seven rendered lines and the one hunk position of this payload
C33_Witness ==
    /\ dv.showDescription
    /\ dv.rawContent = <<Line.Hunk, Line.Del, Line.ColouredDel, Line.Add, Line.SameAdd,
                          Line.Add, Line.Context>>
    /\ Len(dv.rendered) = 7
    /\ dv.hunkPositions = <<0>>

\* ------------------------------------------------------------------- C34
\* C34: while the search-term input is open every key goes to it: enter with
\* a non-empty value is the only key that changes sourceMode, an index, the
\* term, displayMode or singleFileMode; esc, and enter with an empty value,
\* close the input, dispatch nothing and leave those fields as they are; every
\* other key (q, ctrl+c, c, r, s, [, ], 1, ...) leaves the whole Model as it
\* is, dispatches nothing and does not quit.
C34_SearchInputCapturesKeys ==
    m.textInputMode # "" =>
      \A key \in Keys : \A value \in Terms \cup {""} :
         LET res == UpdateKey(m, key, 0, value)
             fields(s) == <<s.sourceMode, s.commitIndex, s.fileCommitIndex, s.reflogIndex,
                            s.sourceIndex, s.pickaxeTerm, s.displayMode, s.singleFileMode>>
         IN /\ ~res.quit
            /\ IF key = "enter" /\ value # ""
               THEN /\ res.m.textInputMode = ""
                    /\ res.m.sourceMode = modePickaxe /\ res.m.pickaxeTerm = value
               ELSE /\ fields(res.m) = fields(m)
                    /\ res.cmds = <<>>
                    /\ IF key \in {"esc", "enter"}
                       THEN res.m = [m EXCEPT !.textInputMode = ""]
                       ELSE res.m = m

\* the search input is open on the reflog, after a step to an older entry, in
\* the full-file display
C34_Witness ==
    /\ m.textInputMode = "pickaxe"
    /\ m.singleFileMode /\ m.sourceMode = modeReflog /\ m.reflogIndex > 0
    /\ m.displayMode # displayDiff

C36_BrowsingIsPlain ==
    ~m.singleFileMode =>
       /\ m.sourceMode = modeCommits
       /\ m.displayMode = displayDiff
       /\ m.textInputMode = ""

\* browsing mode, after a pickaxe result arrived that was asked for in
\* single-file mode: its commit is what the diff header names
C36_Witness ==
    /\ ~m.singleFileMode
    /\ m.sourceCommits # <<>>
    /\ m.fileInfo.hash = m.sourceCommits[m.sourceIndex + 1]
    /\ m.sourceMode = modeCommits /\ m.displayMode = displayDiff /\ m.textInputMode = ""

\* ------------------------------------------------------------------- C37
\* C37: while single-file mode lasts the selected path is not empty and no
\* step, key or load-result delivery, changes it.
C37_FileFixedInSingleFileMode ==
    /\ [](m.singleFileMode => m.currentFile # "")
    /\ [][(m.singleFileMode /\ m'.singleFileMode) => m'.currentFile = m.currentFile]_vars

\* ------------------------------------------------------------------- C38
\* C38: no index is ever negative, and a list is read at its index only when
\* the index is below the length: with the index at or past the end (empty
\* list, failed fetch, a shorter list that arrived after the index moved) the
\* lookup finds no commit, the content load is the empty one, the file-set
\* and diff loads ask the provider nothing, and the panel refresh leaves the
\* labels as they are; a step or a display change made in that situation
\* dispatches only the empty content and keeps the labels.
C38_NoOutOfRangeAccess ==
    /\ [](/\ m.commitIndex \in Nat /\ m.fileCommitIndex \in Nat
          /\ m.reflogIndex \in Nat /\ m.sourceIndex \in Nat)
    /\ [](\A k \in {modeCommits, modeReflog, modePickaxe} :
            LET s == [m EXCEPT !.sourceMode = k, !.singleFileMode = TRUE]
                list == ActiveList(s)
                i == ActiveIndex(s)
                refreshed == CASE k = modeReflog -> updateReflogDisplay(s)
                               [] k = modePickaxe -> updateSourceDisplay(s)
                               [] OTHER -> updateSingleFileModeDisplay(s)
            IN IF i < Len(list)
               THEN currentCommitForSource(s) = [hash |-> list[i + 1], ok |-> TRUE]
               ELSE /\ ~currentCommitForSource(s).ok
                    /\ loadContentForCurrentSource(s).name = "emptyContent"
                    /\ refreshed = s)
    /\ [](IF m.commitIndex < Len(m.commits)
          THEN loadFilesForCurrentCommit(m).hash = m.commits[m.commitIndex + 1]
          ELSE /\ updateRevisionDisplay(m) = m
               /\ loadFilesForCurrentCommit(m).hash = NoHash
               /\ loadDiffForCurrentFile(m).hash = NoHash)
    /\ [][ \A key \in {"[", "]", "c"} :
             (/\ m.singleFileMode /\ m.textInputMode = ""
              /\ Key(key, 0, "")
              /\ ActiveIndex(m') >= Len(ActiveList(m'))) =>
                /\ \A c \in BagToSet(Dispatched) : c.name = "emptyContent"
                /\ Labels(m') = Labels(m) ]_vars

\* the reflog is active at its second entry and the list that arrived after
\* the step is empty
C38_Witness ==
    /\ m.singleFileMode /\ m.sourceMode = modeReflog
    /\ m.reflogIndex > 0 /\ m.reflogEntries = <<>>
    /\ m.currentFile # ""

\* ------------------------------------------------------------------- C39
\* C39: Update returns at most one load for a key, whatever the key and the
\* state; the delivery of a list result (initial data, file set, the file's
\* commits, reflog, pickaxe) dispatches at most one load, a content load; the
\* delivery of a content result dispatches nothing; and with every load that
\* is out delivered at some time, the program comes to rest with no load in
\* flight (or has been quit) once the keys have stopped.
C39_LoadChainsAreFinite ==
    /\ [](\A key \in Keys : \A pick \in 0..MaxLen : \A value \in Terms \cup {""} :
            Len(UpdateKey(m, key, pick, value).cmds) <= 1)
    /\ [][KeyPressLive => BagCardinality(inflight') <= BagCardinality(inflight) + 1]_vars
    /\ [][(InitialDataLoaded \/ FilesLoaded \/ FileCommitsLoaded \/ ReflogLoaded
             \/ SourceCommitsLoaded) =>
              /\ BagCardinality(inflight') <= BagCardinality(inflight)
              /\ BagCardinality(Dispatched) <= 1
              /\ \A c \in BagToSet(Dispatched) :
                    c.name \in {"loadDiffForCurrentFile", "loadContentForCommit",
                                "emptyContent"} ]_vars
    /\ [][(DiffLoaded \/ ContentLoaded \/ EmptyContentLoaded) =>
              /\ BagCardinality(inflight') = BagCardinality(inflight) - 1
              /\ Dispatched = EmptyBag ]_vars
    /\ <>[](quit \/ inflight = EmptyBag)

\* all the keys have been pressed, the last of them activated pickaxe, and the
\* chain of its list load and its content load has run out
C39_Witness ==
    /\ ~quit /\ pressed = MaxLiveKeys
    /\ inflight = EmptyBag
    /\ m.singleFileMode /\ m.sourceMode = modePickaxe
    /\ m.sourceCommits # <<>>
    /\ m.rawContent.kind = "fetched" /\ m.rawContent.hash = m.sourceCommits[m.sourceIndex + 1]

\* ------------------------------------------------------------------- C40
\* C40: the annotator emits one line per line of the shown text (the raw text
\* after header stripping), and the k-th rendered line is the k-th shown
\* line: the same visible text once the escape sequences are taken away, an
\* old number only on a deletion and a new number only on an addition; this
\* holds for deletions and additions that were buffered and flushed
\* deletions first, and for a block flushed at the end of the input.
C40_LinesKeptInOrder ==
    dv.rendered # <<>> =>
      /\ Len(dv.rendered) = Len(Shown)
      /\ \A k \in 1..Len(Shown) :
           /\ stripANSI(dv.rendered[k].text) = stripANSI(Shown[k])
           /\ Class(Shown, k) = "del" =>
                 dv.rendered[k].old # Blank /\ dv.rendered[k].new = Blank
           /\ Class(Shown, k) = "add" =>
                 dv.rendered[k].old = Blank /\ dv.rendered[k].new # Blank

\* an addition, then a block of a deletion and an addition that is still
\* buffered when the input ends
C40_Witness ==
    /\ dv.rawContent = <<Line.Hunk, Line.Add, Line.Del, Line.SameAdd>>
    /\ Len(dv.rendered) = 4
    /\ stripANSI(dv.rendered[3].text) = stripANSI(Line.Del)
    /\ stripANSI(dv.rendered[4].text) = stripANSI(Line.SameAdd)
    /\ dv.rendered[4].old = Blank /\ dv.rendered[4].new # Blank

====
